---- MODULE Spec2Model ----
(***************************************************************************)
(* Model of the recommendation / image-resolution / buddy-matching core    *)
(* of backend-connect:                                                     *)
(*   apps/recommendations/services/unsplash.py    (ImageResolver)          *)
(*   apps/recommendations/services/recommender.py (TripRecommender)        *)
(*   apps/recommendations/services/opentripmap.py (POISource, details)     *)
(*   apps/recommendations/services/geocoder.py    (GeoResolver)            *)
(*   apps/buddies/services.py                     (BuddyMatchingService)   *)
(*                                                                         *)
(* Python strings that the code slices, strips, lower-cases, concatenates  *)
(* or searches are sequences of one-character strings; strings that are    *)
(* only compared or stored (category names, URLs) are TLA+ strings.        *)
(***************************************************************************)
EXTENDS Integers, Sequences, FiniteSets, TLC

None == "None"

----------------------------------------------------------------------------
(* str helpers *)

SP == <<" ">>
US == <<"_">>

\* str.lower() on the characters the model's strings use
LowerChar(c) ==
    CASE c = "A" -> "a"
      [] c = "B" -> "b"
      [] c = "C" -> "c"
      [] c = "D" -> "d"
      [] c = "E" -> "e"
      [] c = "F" -> "f"
      [] c = "G" -> "g"
      [] c = "H" -> "h"
      [] c = "I" -> "i"
      [] c = "J" -> "j"
      [] c = "K" -> "k"
      [] c = "L" -> "l"
      [] c = "M" -> "m"
      [] c = "N" -> "n"
      [] c = "O" -> "o"
      [] c = "P" -> "p"
      [] c = "Q" -> "q"
      [] c = "R" -> "r"
      [] c = "S" -> "s"
      [] c = "T" -> "t"
      [] c = "U" -> "u"
      [] c = "V" -> "v"
      [] c = "W" -> "w"
      [] c = "X" -> "x"
      [] c = "Y" -> "y"
      [] c = "Z" -> "z"
      [] OTHER -> c

RECURSIVE Lower(_)
Lower(s) == IF s = <<>> THEN <<>> ELSE <<LowerChar(Head(s))>> \o Lower(Tail(s))

RECURSIVE LStrip(_)
LStrip(s) == IF s # <<>> /\ Head(s) = " " THEN LStrip(Tail(s)) ELSE s

RECURSIVE RStrip(_)
RStrip(s) ==
    IF s # <<>> /\ s[Len(s)] = " " THEN RStrip(SubSeq(s, 1, Len(s) - 1)) ELSE s

\* str.strip()
Strip(s) == RStrip(LStrip(s))

\* `sub in s` for Python strings
Contains(sub, s) ==
    \E i \in 1..(Len(s) + 1) :
        /\ i + Len(sub) - 1 <= Len(s)
        /\ SubSeq(s, i, i + Len(sub) - 1) = sub

----------------------------------------------------------------------------
(* unsplash.py: tables *)

\* the search keywords of the image queries, spelled as character sequences
KW ==
    [ nature |-> <<"l", "a", "n", "d", "s", "c", "a", "p", "e", " ", "n", "a", "t", "u", "r", "e">>,
      adventure |-> <<"a", "d", "v", "e", "n", "t", "u", "r", "e", " ", "o", "u", "t", "d", "o", "o", "r">>,
      culture |-> <<"c", "u", "l", "t", "u", "r", "e", " ", "h", "e", "r", "i", "t", "a", "g", "e">>,
      food |-> <<"f", "o", "o", "d", " ", "c", "u", "i", "s", "i", "n", "e">>,
      leisure |-> <<"l", "e", "i", "s", "u", "r", "e", " ", "r", "e", "l", "a", "x", "a", "t", "i", "o", "n">>,
      landmark |-> <<"l", "a", "n", "d", "m", "a", "r", "k">> ]

CATEGORY_KEYWORDS ==
    [nature |-> KW.nature, adventure |-> KW.adventure, culture |-> KW.culture,
     food |-> KW.food, gastronomy |-> KW.food, leisure |-> KW.leisure]

CATEGORY_FALLBACK_IMAGES ==
    [nature |-> <<"https://images.unsplash.com/photo-1506905925346-21bda4d32df4?w=800",
                  "https://images.unsplash.com/photo-1511593358241-7eea1f3c84e5?w=800",
                  "https://images.unsplash.com/photo-1469474968028-56623f02e42e?w=800",
                  "https://images.unsplash.com/photo-1441974231531-c6227db76b6e?w=800",
                  "https://images.unsplash.com/photo-1426604966848-d7adac402bff?w=800">>,
     adventure |-> <<"https://images.unsplash.com/photo-1551632811-561732d1e306?w=800",
                     "https://images.unsplash.com/photo-1476514525535-07fb3b4ae5f1?w=800",
                     "https://images.unsplash.com/photo-1483728642387-6c3bdd6c93e5?w=800",
                     "https://images.unsplash.com/photo-1501555088652-021faa106b9b?w=800">>,
     culture |-> <<"https://images.unsplash.com/photo-1513635269975-59663e0ac1ad?w=800",
                   "https://images.unsplash.com/photo-1533929736458-ca588d08c8be?w=800",
                   "https://images.unsplash.com/photo-1555400038-63f5ba517a47?w=800",
                   "https://images.unsplash.com/photo-1558525148-544f74d6678f?w=800">>,
     food |-> <<"https://images.unsplash.com/photo-1504674900247-0877df9cc836?w=800",
                "https://images.unsplash.com/photo-1555939594-58d7cb561ad1?w=800",
                "https://images.unsplash.com/photo-1565299624946-b28f40a0ae38?w=800",
                "https://images.unsplash.com/photo-1546069901-ba9599a7e63c?w=800">>,
     gastronomy |-> <<"https://images.unsplash.com/photo-1504674900247-0877df9cc836?w=800",
                      "https://images.unsplash.com/photo-1555939594-58d7cb561ad1?w=800">>,
     leisure |-> <<"https://images.unsplash.com/photo-1540541338287-41700207dee6?w=800",
                   "https://images.unsplash.com/photo-1507525428034-b723cf961d3e?w=800",
                   "https://images.unsplash.com/photo-1559827260-dc66d52bef19?w=800">>]

\* int(hashlib.md5(s.encode()).hexdigest(), 16) % 60 for the strings the model
\* hashes.  Every curated list has a length that divides 60, so
\* (md5 % 60) % len = md5 % len.
MD5Table ==
    { <<<<>>, 6>>,                                             \* ''          d41d8cd9...
      <<<<"F", "o", "r", "t">>, 58>>,                          \* 'Fort'      d611bfb2...
      <<<<"F", "o", "r", "t", " ">>, 17>>,                     \* 'Fort '     a941680d...
      <<<<"F", "o", "r", "t", " ", "_">>, 19>>,                \* 'Fort _'    09dc5034...
      <<<<"F", "o", "r", "t", " ", "_", "G", "o", "a">>, 33>>, \* 'Fort _Goa' 8e7a9ce4...
      <<<<"F", "o", "r", "t", "_">>, 14>>,                     \* 'Fort_'     e31033bb...
      <<<<"F", "o", "r", "t", "_", "G", "o", "a">>, 26>>,      \* 'Fort_Goa'  1620f50f...
      <<<<"_", " ">>, 30>>,  \* '_ ' 97ecfdb9...
      <<<<"F", "o", "r", "t", "_", " ">>, 30>>,  \* 'Fort_ ' 5cb4b74b...
      <<<<"F", "o", "r", "t", " ", "_", " ">>, 2>>,  \* 'Fort _ ' db614131...
      <<<<"_">>, 10>>,                                         \* '_'         b14a7b80...
      <<<<"_", "G", "o", "a">>, 49>> }                         \* '_Goa'      2af96269...

MD5Int(s) == (CHOOSE p \in MD5Table : p[1] = s)[2]

\* the hash-rotated pick from a curated list (unsplash.py 190-197 and 263-271)
PickFallback(table, category, seed) ==
    LET fallback_images == IF category \in DOMAIN table THEN table[category]
                           ELSE table["culture"]
        index == MD5Int(seed) % Len(fallback_images)
    IN  fallback_images[index + 1]

----------------------------------------------------------------------------
(* unsplash.py: UnsplashService *)

\* What one HTTP request to the Unsplash search endpoint can come back with.
ProviderResponses ==
    {[kind |-> k, url |-> None] :
        k \in {"forbidden", "timeout", "connection_error", "http_error", "bad_body",
               "no_results"}}
        \cup {[kind |-> "ok", url |-> "https://images.unsplash.com/photo-provider-1"]}

\* _search_unsplash with the 403 branch not setting the flag
_search_unsplash_no_trip(query, disabled, key, response) ==
    IF disabled \/ ~key
    THEN [image_url |-> None, disabled |-> disabled, requests |-> 0, saw403 |-> FALSE]
    ELSE IF response.kind = "ok"
    THEN [image_url |-> response.url, disabled |-> disabled, requests |-> 1,
          saw403 |-> FALSE]
    ELSE [image_url |-> None, disabled |-> disabled, requests |-> 1,
          saw403 |-> response.kind = "forbidden"]

\* _search_unsplash setting the flag on every failed request
_search_unsplash_trips_on_any_error(query, disabled, key, response) ==
    IF disabled \/ ~key
    THEN [image_url |-> None, disabled |-> disabled, requests |-> 0, saw403 |-> FALSE]
    ELSE IF response.kind = "ok"
    THEN [image_url |-> response.url, disabled |-> disabled, requests |-> 1,
          saw403 |-> FALSE]
    ELSE IF response.kind = "no_results"
    THEN [image_url |-> None, disabled |-> disabled, requests |-> 1, saw403 |-> FALSE]
    ELSE [image_url |-> None, disabled |-> TRUE, requests |-> 1,
          saw403 |-> response.kind = "forbidden"]

\* One call of _search_unsplash: the image URL or None, the breaker flag after
\* it, the number of HTTP requests it issued and whether one answered 403.
_search_unsplash(query, disabled, key, response) ==
    IF disabled
    THEN [image_url |-> None, disabled |-> disabled, requests |-> 0, saw403 |-> FALSE]
    ELSE IF ~key
    THEN [image_url |-> None, disabled |-> disabled, requests |-> 0, saw403 |-> FALSE]
    ELSE IF response.kind = "forbidden"
    THEN [image_url |-> None, disabled |-> TRUE, requests |-> 1, saw403 |-> TRUE]
    ELSE IF response.kind = "ok"
    THEN [image_url |-> response.url, disabled |-> disabled, requests |-> 1,
          saw403 |-> FALSE]
    ELSE \* timeout, RequestException, raise_for_status, no results, bad body
         [image_url |-> None, disabled |-> disabled, requests |-> 1, saw403 |-> FALSE]

\* DestinationImageCache.objects.update_or_create(query=..., defaults=...)
update_or_create(cache, query, image_url, image_source) ==
    {e \in cache : e.query # query}
        \cup {[query |-> query, image_url |-> image_url, image_source |-> image_source]}

\* the candidate queries with the city query ahead of the category query
BuildQueriesCityFirst(place_name, city, country, category) ==
    LET step1 == IF place_name # <<>> /\ city # <<>> /\ country # <<>>
                 THEN <<place_name \o SP \o city \o SP \o country>>
                 ELSE IF place_name # <<>> /\ city # <<>>
                 THEN <<place_name \o SP \o city>>
                 ELSE IF place_name # <<>>
                 THEN <<place_name>>
                 ELSE <<>>
        step2 == IF city # <<>> /\ category \in DOMAIN CATEGORY_KEYWORDS
                 THEN <<city \o SP \o CATEGORY_KEYWORDS[category]>>
                 ELSE <<>>
        step3 == IF city # <<>> /\ country # <<>>
                 THEN <<city \o SP \o country>>
                 ELSE IF city # <<>>
                 THEN <<city \o SP \o KW.landmark>>
                 ELSE <<>>
    IN  step1 \o step3 \o step2

\* lines 206-225: the candidate queries, from the stripped inputs
BuildQueries(place_name, city, country, category) ==
    LET step1 == IF place_name # <<>> /\ city # <<>> /\ country # <<>>
                 THEN <<place_name \o SP \o city \o SP \o country>>
                 ELSE IF place_name # <<>> /\ city # <<>>
                 THEN <<place_name \o SP \o city>>
                 ELSE IF place_name # <<>>
                 THEN <<place_name>>
                 ELSE <<>>
        step2 == IF city # <<>> /\ category \in DOMAIN CATEGORY_KEYWORDS
                 THEN <<city \o SP \o CATEGORY_KEYWORDS[category]>>
                 ELSE <<>>
        step3 == IF city # <<>> /\ country # <<>>
                 THEN <<city \o SP \o country>>
                 ELSE IF city # <<>>
                 THEN <<city \o SP \o KW.landmark>>
                 ELSE <<>>
    IN  step1 \o step2 \o step3

\* lines 228-257: the loop over the candidate queries.  The set of ways it can
\* end, over every answer of the provider to every request it issues:
\* "return" (a cache hit or a provider image) or "exhausted" (go to step 4).
\* `queried` lists the requests sent to the provider so far: the normalized
\* query of each and whether it was answered 403.  `tried` lists the queries
\* the loop has taken up: the query, the key of its cache lookup, whether the
\* lookup hit, whether _search_unsplash was called for it and returned a URL.
RECURSIVE TryQueries(_, _, _, _, _, _, _, _, _)
TryQueries(queries, i, cache, disabled, key, requests, saw403, queried, tried) ==
    IF i > Len(queries)
    THEN {[kind |-> "exhausted", image_url |-> None, image_source |-> None,
           cache |-> cache, disabled |-> disabled, requests |-> requests,
           saw403 |-> saw403, queried |-> queried, cache_hit |-> FALSE,
           tried |-> tried]}
    ELSE
      LET query == queries[i]
          query_normalized == Strip(Lower(query))
          cached == {e \in cache : e.query = query_normalized}
          Sent(r) == IF r.requests = 0 THEN queried
                     ELSE Append(queried, [query |-> query_normalized,
                                           forbidden |-> r.saw403])
          Tried(hit, searched, got) ==
              Append(tried, [query |-> query, lookup |-> query_normalized,
                             cache_hit |-> hit, searched |-> searched,
                             got_result |-> got])
      IN  IF cached # {}
          THEN {[kind |-> "return", image_url |-> e.image_url,
                 image_source |-> e.image_source, cache |-> cache,
                 disabled |-> disabled, requests |-> requests,
                 saw403 |-> saw403, queried |-> queried, cache_hit |-> TRUE,
                 tried |-> Tried(TRUE, FALSE, FALSE)]
                : e \in cached}
          ELSE UNION {
                 IF r.image_url # None
                 THEN {[kind |-> "return", image_url |-> r.image_url,
                        image_source |-> "unsplash",
                        cache |-> update_or_create(cache, query_normalized,
                                                   r.image_url, "unsplash"),
                        disabled |-> r.disabled,
                        requests |-> requests + r.requests,
                        saw403 |-> saw403 \/ r.saw403, queried |-> Sent(r),
                        cache_hit |-> FALSE, tried |-> Tried(FALSE, TRUE, TRUE)]}
                 ELSE TryQueries(queries, i + 1, cache, r.disabled, key,
                                 requests + r.requests, saw403 \/ r.saw403,
                                 Sent(r), Tried(FALSE, TRUE, FALSE))
                 : r \in {_search_unsplash(query, disabled, key, response)
                             : response \in ProviderResponses} }

\* get_place_image_with_fallback: the set of its possible outcomes
\* [image_url, image_source] with the image cache and breaker flag it leaves,
\* the number of provider requests it issued, whether one answered 403, the
\* requests themselves and how it ended: "short_circuit" (lines 186-199),
\* "cache_hit", "provider" or "step4".
get_place_image_with_fallback(place_name, city, country, category, cache, disabled, key) ==
    IF disabled
    THEN \* lines 186-199: the raw (unstripped) arguments are hashed
         {[image_url |-> PickFallback(CATEGORY_FALLBACK_IMAGES, category,
                                      place_name \o US \o city),
           image_source |-> "fallback", cache |-> cache, disabled |-> disabled,
           requests |-> 0, saw403 |-> FALSE, queried |-> <<>>,
           tried |-> <<>>, ended |-> "short_circuit"]}
    ELSE
      LET pn == Strip(place_name)
          ct == Strip(city)
          co == Strip(country)
          ends == TryQueries(BuildQueries(pn, ct, co, category), 1, cache,
                             disabled, key, 0, FALSE, <<>>, <<>>)
          \* lines 263-271: the stripped arguments are hashed
          fallback_url == PickFallback(CATEGORY_FALLBACK_IMAGES, category, pn \o US \o ct)
          \* line 275
          cache_key == Strip(Lower(pn \o US \o ct \o US \o co))
      IN  {IF e.kind = "return"
           THEN [image_url |-> e.image_url, image_source |-> e.image_source,
                 cache |-> e.cache, disabled |-> e.disabled,
                 requests |-> e.requests, saw403 |-> e.saw403,
                 queried |-> e.queried, tried |-> e.tried,
                 ended |-> IF e.cache_hit THEN "cache_hit" ELSE "provider"]
           ELSE [image_url |-> fallback_url, image_source |-> "fallback",
                 cache |-> IF cache_key # <<>>
                           THEN update_or_create(e.cache, cache_key, fallback_url,
                                                 "fallback")
                           ELSE e.cache,
                 disabled |-> e.disabled, requests |-> e.requests,
                 saw403 |-> e.saw403, queried |-> e.queried, tried |-> e.tried,
                 ended |-> "step4"]
           : e \in ends}

----------------------------------------------------------------------------
(* geocoder.py *)

\* What the Nominatim request can come back with.  "bad_shape" is a JSON body
\* whose first result has no usable lat/lon (KeyError, ValueError, TypeError).
GeocodeResponses ==
    {[kind |-> k, lat |-> None, lon |-> None] :
        k \in {"timeout", "connection_error", "http_error", "bad_shape", "no_results"}}
        \cup {[kind |-> "ok", lat |-> "15.3", lon |-> "74.1"]}

\* geocode_location: (lat, lon) or (None, None), and the requests it issued
geocode_location(city, response) ==
    IF city = <<>>
    THEN [lat |-> None, lon |-> None, requests |-> 0]
    ELSE IF response.kind = "ok"
    THEN [lat |-> response.lat, lon |-> response.lon, requests |-> 1]
    ELSE [lat |-> None, lon |-> None, requests |-> 1]

----------------------------------------------------------------------------
(* opentripmap.py *)

\* kind tags of places, spelled as character sequences
K ==
    [ natural |-> <<"n", "a", "t", "u", "r", "a", "l">>,
      beach |-> <<"b", "e", "a", "c", "h">>,
      mountain |-> <<"m", "o", "u", "n", "t", "a", "i", "n">>,
      park |-> <<"p", "a", "r", "k">>,
      sport |-> <<"s", "p", "o", "r", "t">>,
      climbing |-> <<"c", "l", "i", "m", "b", "i", "n", "g">>,
      diving |-> <<"d", "i", "v", "i", "n", "g">>,
      cultural |-> <<"c", "u", "l", "t", "u", "r", "a", "l">>,
      historic |-> <<"h", "i", "s", "t", "o", "r", "i", "c">>,
      museum |-> <<"m", "u", "s", "e", "u", "m">>,
      architecture |-> <<"a", "r", "c", "h", "i", "t", "e", "c", "t", "u", "r", "e">>,
      food |-> <<"f", "o", "o", "d">>,
      restaurant |-> <<"r", "e", "s", "t", "a", "u", "r", "a", "n", "t">>,
      cafe |-> <<"c", "a", "f", "e">>,
      foods |-> <<"f", "o", "o", "d", "s">>,
      shops |-> <<"s", "h", "o", "p", "s">>,
      Natural |-> <<"N", "a", "t", "u", "r", "a", "l">>,
      BEACHES |-> <<"B", "E", "A", "C", "H", "E", "S">>,
      museums |-> <<"m", "u", "s", "e", "u", "m", "s">> ]

COMMA == <<",">>
OSM_PREFIX == <<"o", "s", "m", "_">>

DETAILS_CACHE_TIMEOUT == 600
DETAILS_FAILURE_TIMEOUT == 60

\* A missing dict key or None where the value would be a str
Absent == <<"<absent>">>

\* Python truthiness of an optional str held as a character sequence
Truthy(s) == s # <<>> /\ s # Absent

\* Python truthiness of an optional URL
TruthyUrl(u) == u # "" /\ u # None

S_UnknownPlace == <<"U", "n", "k", "n", "o", "w", "n", " ", "P", "l", "a", "c", "e">>

\* str.startswith
StartsWith(s, prefix) ==
    Len(s) >= Len(prefix) /\ SubSeq(s, 1, Len(prefix)) = prefix

HttpFailures == {"timeout", "connection_error", "http_error", "non_json"}

\* get_places_by_radius: `status` is how the HTTP request ends, `body` the JSON
\* value of a 200 answer: a list of elements (each a dict or not), a dict,
\* or a scalar.
get_places_by_radius(api_key, status, body) ==
    IF ~api_key
    THEN [exc |-> None, places |-> <<>>, requests |-> 0]
    ELSE IF status \in HttpFailures
    THEN \* Timeout, RequestException, ValueError are caught
         [exc |-> None, places |-> <<>>, requests |-> 1]
    ELSE IF body.shape = "list"
    THEN IF \E i \in 1..Len(body.items) : body.items[i].shape # "dict"
         THEN \* place.get on a non-dict: AttributeError, not among the handlers
              [exc |-> "AttributeError", places |-> <<>>, requests |-> 1]
         ELSE [exc |-> None,
               places |-> SelectSeq(body.items,
                              LAMBDA place : Truthy(place.name) /\ Truthy(place.xid)),
               requests |-> 1]
    ELSE [exc |-> None, places |-> <<>>, requests |-> 1]

\* The kinds string get_places_from_overpass builds from an element's tags
RECURSIVE JoinComma(_)
JoinComma(parts) ==
    IF parts = <<>> THEN <<>>
    ELSE IF Len(parts) = 1 THEN parts[1]
    ELSE parts[1] \o COMMA \o JoinComma(Tail(parts))

OverpassKinds(tags) ==
    JoinComma(  (IF Truthy(tags.tourism) THEN <<tags.tourism>> ELSE <<>>)
             \o (IF Truthy(tags.historic) THEN <<K.historic>> ELSE <<>>)
             \o (IF Truthy(tags.leisure) THEN <<tags.leisure>> ELSE <<>>)
             \o (IF Truthy(tags.amenity) THEN <<tags.amenity>> ELSE <<>>))

RECURSIVE OverpassPlaces(_)
OverpassPlaces(elements) ==
    IF elements = <<>> THEN <<>>
    ELSE LET element == Head(elements)
         IN  (IF ~Truthy(element.tags.name) THEN <<>>
              ELSE <<[shape |-> "dict", xid |-> OSM_PREFIX \o element.id,
                      name |-> element.tags.name,
                      kinds |-> OverpassKinds(element.tags)]>>)
             \o OverpassPlaces(Tail(elements))

\* get_places_from_overpass: every exception is caught
get_places_from_overpass(status, elements, limit) ==
    IF status \in HttpFailures \cup {"bad_body"}
    THEN [exc |-> None, places |-> <<>>, requests |-> 1]
    ELSE LET places == OverpassPlaces(elements)
         IN  [exc |-> None,
              places |-> SubSeq(places, 1, IF Len(places) < limit THEN Len(places)
                                           ELSE limit),
              requests |-> 1]

EmptyDetails ==
    [shape |-> "empty", xid |-> <<>>, preview |-> None, name |-> Absent, text |-> Absent]

\* details['wikipedia_extracts']['text'] of a place that has one
S_Extract == <<"A", " ", "f", "o", "r", "t">>

\* What the detail request for `xid` can come back with: a failure, or a 200
\* answer whose JSON body is the place's detail dict (with or without a
\* preview image and a wikipedia extract; its name may be blank), a dict
\* without xid, or not a dict.
DetailResponses(xid) ==
    {[status |-> s, body |-> EmptyDetails] : s \in HttpFailures}
        \cup {[status |-> "ok", body |-> b] : b \in
                { [shape |-> "dict", xid |-> xid,
                   preview |-> "https://upload.wikimedia.org/poi.jpg", name |-> Absent,
                   text |-> S_Extract],
                  [shape |-> "dict", xid |-> xid, preview |-> None, name |-> Absent,
                   text |-> Absent],
                  [shape |-> "dict", xid |-> xid, preview |-> None, name |-> <<>>,
                   text |-> <<>>],
                  [shape |-> "dict", xid |-> <<>>, preview |-> None, name |-> Absent,
                   text |-> Absent],
                  [shape |-> "nondict", xid |-> <<>>, preview |-> None, name |-> Absent,
                   text |-> Absent] }}

\* cache.set(cache_key, value, timeout) on the detail cache
detail_cache_set(dcache, xid, payload, ttl) ==
    {e \in dcache : e.xid # xid} \cup {[xid |-> xid, payload |-> payload, ttl |-> ttl]}

\* get_place_details without the cache.set calls of its except branches
get_place_details_no_negative_cache(xid, api_key, dcache, response) ==
    IF ~api_key
    THEN [exc |-> None, details |-> EmptyDetails, dcache |-> dcache, requests |-> 0]
    ELSE IF \E e \in dcache : e.xid = xid
    THEN [exc |-> None,
          details |-> (CHOOSE e \in dcache : e.xid = xid).payload,
          dcache |-> dcache, requests |-> 0]
    ELSE IF response.status \in HttpFailures
    THEN [exc |-> None, details |-> EmptyDetails, dcache |-> dcache, requests |-> 1]
    ELSE IF response.body.shape = "nondict"
    THEN [exc |-> "AttributeError", details |-> EmptyDetails, dcache |-> dcache,
          requests |-> 1]
    ELSE IF response.body.shape = "dict" /\ Truthy(response.body.xid)
    THEN [exc |-> None, details |-> response.body,
          dcache |-> detail_cache_set(dcache, xid, response.body, DETAILS_CACHE_TIMEOUT),
          requests |-> 1]
    ELSE [exc |-> None, details |-> EmptyDetails,
          dcache |-> detail_cache_set(dcache, xid, EmptyDetails, DETAILS_CACHE_TIMEOUT),
          requests |-> 1]

\* get_place_details: the detail dict ({} on error), the detail cache after it
get_place_details(xid, api_key, dcache, response) ==
    IF ~api_key
    THEN [exc |-> None, details |-> EmptyDetails, dcache |-> dcache, requests |-> 0]
    ELSE IF \E e \in dcache : e.xid = xid
    THEN [exc |-> None,
          details |-> (CHOOSE e \in dcache : e.xid = xid).payload,
          dcache |-> dcache, requests |-> 0]
    ELSE IF response.status \in HttpFailures
    THEN [exc |-> None, details |-> EmptyDetails,
          dcache |-> detail_cache_set(dcache, xid, EmptyDetails, DETAILS_FAILURE_TIMEOUT),
          requests |-> 1]
    ELSE IF response.body.shape = "nondict"
    THEN \* result.get on a non-dict: AttributeError, not among the handlers
         [exc |-> "AttributeError", details |-> EmptyDetails, dcache |-> dcache,
          requests |-> 1]
    ELSE IF response.body.shape = "dict" /\ Truthy(response.body.xid)
    THEN [exc |-> None, details |-> response.body,
          dcache |-> detail_cache_set(dcache, xid, response.body, DETAILS_CACHE_TIMEOUT),
          requests |-> 1]
    ELSE [exc |-> None, details |-> EmptyDetails,
          dcache |-> detail_cache_set(dcache, xid, EmptyDetails, DETAILS_CACHE_TIMEOUT),
          requests |-> 1]

\* One element of get_places_with_details' result: the place, its image and
\* description and, when a detail fetch was made for it, the 'details' key.
Enriched(place, image, has_details, details) ==
    [xid |-> place.xid, name |-> place.name, kinds |-> place.kinds,
     image |-> image,
     description |-> IF has_details /\ details.shape = "dict"
                        /\ details.text # Absent /\ Truthy(details.text)
                     THEN details.text ELSE <<>>,
     has_details |-> has_details, details |-> details]

\* a skip test that lets one more position through
SkipsDetailsOffByOne(i, place, max_details) ==
    \/ i - 1 > max_details
    \/ ~Truthy(place.xid)
    \/ StartsWith(place.xid, OSM_PREFIX)

\* the two `continue` branches of the loop: the place at (1-based) position i
\* gets no detail fetch
SkipsDetails(i, place, max_details) ==
    \/ i - 1 >= max_details
    \/ ~Truthy(place.xid)
    \/ StartsWith(place.xid, OSM_PREFIX)

\* get_places_with_details, from position i on: the set of ways it can end
\* over every answer to every detail request it issues.
RECURSIVE EnrichFrom(_, _, _, _, _, _, _)
EnrichFrom(places, i, max_details, api_key, dcache, enriched, requests) ==
    IF i > Len(places)
    THEN {[exc |-> None, enriched |-> enriched, dcache |-> dcache,
           requests |-> requests]}
    ELSE
      LET place == places[i]
      IN  IF SkipsDetails(i, place, max_details)
          THEN EnrichFrom(places, i + 1, max_details, api_key, dcache,
                          Append(enriched, Enriched(place, None, FALSE, EmptyDetails)),
                          requests)
          ELSE UNION {
                 LET image == IF d.details.shape = "dict" /\ TruthyUrl(d.details.preview)
                              THEN d.details.preview ELSE None
                 IN  IF d.exc # None
                     THEN {[exc |-> d.exc, enriched |-> enriched, dcache |-> d.dcache,
                            requests |-> requests + d.requests]}
                     ELSE EnrichFrom(places, i + 1, max_details, api_key, d.dcache,
                                     Append(enriched,
                                            Enriched(place, image, TRUE, d.details)),
                                     requests + d.requests)
                 : d \in {get_place_details(place.xid, api_key, dcache, response)
                             : response \in DetailResponses(place.xid)} }

get_places_with_details(places, max_details, api_key, dcache) ==
    EnrichFrom(places, 1, max_details, api_key, dcache, <<>>, 0)

----------------------------------------------------------------------------
(* recommender.py *)

CATEGORY_TO_KINDS ==
    [nature |-> K.natural, adventure |-> K.sport,
     culture |-> K.cultural \o COMMA \o K.historic, gastronomy |-> K.foods,
     all |-> Absent]

\* recommender.py's own, shorter, curated lists (lines 52-74)
RECOMMENDER_FALLBACK_IMAGES ==
    [nature |-> <<"https://images.unsplash.com/photo-1506905925346-21bda4d32df4?w=800",
                  "https://images.unsplash.com/photo-1511593358241-7eea1f3c84e5?w=800",
                  "https://images.unsplash.com/photo-1469474968028-56623f02e42e?w=800">>,
     adventure |-> <<"https://images.unsplash.com/photo-1551632811-561732d1e306?w=800",
                     "https://images.unsplash.com/photo-1476514525535-07fb3b4ae5f1?w=800">>,
     culture |-> <<"https://images.unsplash.com/photo-1513635269975-59663e0ac1ad?w=800",
                   "https://images.unsplash.com/photo-1533929736458-ca588d08c8be?w=800">>,
     food |-> <<"https://images.unsplash.com/photo-1504674900247-0877df9cc836?w=800",
                "https://images.unsplash.com/photo-1555939594-58d7cb561ad1?w=800">>,
     leisure |-> <<"https://images.unsplash.com/photo-1540541338287-41700207dee6?w=800",
                   "https://images.unsplash.com/photo-1507525428034-b723cf961d3e?w=800">>]

\* INTEREST_TO_KINDS (lines 30-50): the rows of the dict
INTEREST_TO_KINDS ==
    { [interest |-> <<"a", "d", "v", "e", "n", "t", "u", "r", "e">>,
       kinds |-> <<"s", "p", "o", "r", "t">>],
      [interest |-> <<"h", "i", "k", "i", "n", "g">>,
       kinds |-> <<"n", "a", "t", "u", "r", "a", "l", ",", "s", "p", "o", "r", "t">>],
      [interest |-> <<"s", "p", "o", "r", "t", "s">>,
       kinds |-> <<"s", "p", "o", "r", "t">>],
      [interest |-> <<"w", "a", "t", "e", "r", " ", "s", "p", "o", "r", "t", "s">>,
       kinds |-> <<"s", "p", "o", "r", "t", ",", "b", "e", "a", "c", "h", "e", "s">>],
      [interest |-> <<"n", "a", "t", "u", "r", "e">>,
       kinds |-> <<"n", "a", "t", "u", "r", "a", "l">>],
      [interest |-> <<"b", "e", "a", "c", "h", "e", "s">>,
       kinds |-> <<"b", "e", "a", "c", "h", "e", "s", ",", "n", "a", "t", "u", "r", "a", "l">>],
      [interest |-> <<"m", "o", "u", "n", "t", "a", "i", "n", "s">>,
       kinds |-> <<"n", "a", "t", "u", "r", "a", "l">>],
      [interest |-> <<"w", "i", "l", "d", "l", "i", "f", "e">>,
       kinds |-> <<"n", "a", "t", "u", "r", "a", "l">>],
      [interest |-> <<"c", "u", "l", "t", "u", "r", "e">>,
       kinds |-> <<"c", "u", "l", "t", "u", "r", "a", "l", ",", "h", "i", "s", "t", "o", "r", "i", "c">>],
      [interest |-> <<"h", "i", "s", "t", "o", "r", "y">>,
       kinds |-> <<"h", "i", "s", "t", "o", "r", "i", "c", ",", "c", "u", "l", "t", "u", "r", "a", "l">>],
      [interest |-> <<"a", "r", "c", "h", "i", "t", "e", "c", "t", "u", "r", "e">>,
       kinds |-> <<"a", "r", "c", "h", "i", "t", "e", "c", "t", "u", "r", "e", ",", "c", "u", "l", "t", "u", "r", "a", "l">>],
      [interest |-> <<"m", "u", "s", "e", "u", "m", "s">>,
       kinds |-> <<"m", "u", "s", "e", "u", "m", "s", ",", "c", "u", "l", "t", "u", "r", "a", "l">>],
      [interest |-> <<"a", "r", "t">>,
       kinds |-> <<"c", "u", "l", "t", "u", "r", "a", "l", ",", "m", "u", "s", "e", "u", "m", "s">>],
      [interest |-> <<"f", "o", "o", "d">>,
       kinds |-> <<"f", "o", "o", "d", "s">>],
      [interest |-> <<"g", "a", "s", "t", "r", "o", "n", "o", "m", "y">>,
       kinds |-> <<"f", "o", "o", "d", "s">>],
      [interest |-> <<"n", "i", "g", "h", "t", "l", "i", "f", "e">>,
       kinds |-> <<"a", "m", "u", "s", "e", "m", "e", "n", "t", "s">>],
      [interest |-> <<"s", "h", "o", "p", "p", "i", "n", "g">>,
       kinds |-> <<"s", "h", "o", "p", "s">>],
      [interest |-> <<"r", "e", "l", "a", "x", "a", "t", "i", "o", "n">>,
       kinds |-> <<"n", "a", "t", "u", "r", "a", "l", ",", "b", "e", "a", "c", "h", "e", "s">>],
      [interest |-> <<"p", "h", "o", "t", "o", "g", "r", "a", "p", "h", "y">>,
       kinds |-> <<"n", "a", "t", "u", "r", "a", "l", ",", "a", "r", "c", "h", "i", "t", "e", "c", "t", "u", "r", "e", ",", "c", "u", "l", "t", "u", "r", "a", "l">>] }

\* str.split(','): the parts of s between commas
RECURSIVE Split(_)
Split(s) ==
    IF \A i \in 1..Len(s) : s[i] # ","
    THEN <<s>>
    ELSE LET c == CHOOSE i \in 1..Len(s) : s[i] = "," /\ \A k \in 1..(i - 1) : s[k] # ","
         IN  <<SubSeq(s, 1, c - 1)>> \o Split(SubSeq(s, c + 1, Len(s)))

\* all_interests of _get_dominant_interests: the members' interest lists, one
\* after the other
RECURSIVE AllInterests(_)
AllInterests(members_data) ==
    IF members_data = <<>> THEN <<>>
    ELSE Head(members_data) \o AllInterests(Tail(members_data))

\* Counter(all_interests): the distinct elements in first-seen order
RECURSIVE CounterKeys(_, _)
CounterKeys(all_interests, seen) ==
    IF all_interests = <<>> THEN <<>>
    ELSE IF Head(all_interests) \in seen
    THEN CounterKeys(Tail(all_interests), seen)
    ELSE <<Head(all_interests)>>
             \o CounterKeys(Tail(all_interests), seen \cup {Head(all_interests)})

\* Counter(all_interests)[x]
Count(all_interests, x) ==
    Cardinality({i \in 1..Len(all_interests) : all_interests[i] = x})

\* most_common(): sorted(items, key=count, reverse=True), a stable sort, so
\* equal counts keep the Counter's insertion order
RECURSIVE InsertByCount(_, _, _)
InsertByCount(sorted, x, all_interests) ==
    IF sorted = <<>> THEN <<x>>
    ELSE IF Count(all_interests, Head(sorted)) >= Count(all_interests, x)
    THEN <<Head(sorted)>> \o InsertByCount(Tail(sorted), x, all_interests)
    ELSE <<x>> \o sorted

RECURSIVE MostCommon(_, _, _)
MostCommon(keys, sorted, all_interests) ==
    IF keys = <<>> THEN sorted
    ELSE MostCommon(Tail(keys), InsertByCount(sorted, Head(keys), all_interests),
                    all_interests)

\* _get_dominant_interests returning the interests in first-seen order
_get_dominant_interests_first_seen(members_data) ==
    CounterKeys(AllInterests(members_data), {})

_get_dominant_interests(members_data) ==
    LET all_interests == AllInterests(members_data)
    IN  MostCommon(CounterKeys(all_interests, {}), <<>>, all_interests)

\* the cap of line 164
MAX_KINDS == 8

\* interests[:5] of line 157
TOP_INTERESTS == 5

\* the kind tags kinds_set holds after the loop of lines 157-160
KindsSet(interests) ==
    LET top == SubSeq(interests, 1,
                      IF Len(interests) < TOP_INTERESTS THEN Len(interests)
                      ELSE TOP_INTERESTS)
    IN  UNION { {Split(row.kinds)[k] : k \in 1..Len(Split(row.kinds))}
                : row \in {r \in INTEREST_TO_KINDS :
                             \E i \in 1..Len(top) : Lower(top[i]) = r.interest} }

\* _map_interests_to_kinds: the kind filters it can return.  The filter is a
\* comma-joined string whose tags come in the iteration order of a set of
\* strings, which differs from run to run: it is kept as the set of its tags,
\* and list(kinds_set)[:8] is any MAX_KINDS of them.  is_none: it returns None.
_map_interests_to_kinds(interests) ==
    IF interests = <<>> \/ KindsSet(interests) = {}
    THEN {[is_none |-> TRUE, kinds |-> {}]}
    ELSE LET kinds_set == KindsSet(interests)
         IN  IF Cardinality(kinds_set) <= MAX_KINDS
             THEN {[is_none |-> FALSE, kinds |-> kinds_set]}
             ELSE {[is_none |-> FALSE, kinds |-> t]
                   : t \in {u \in SUBSET kinds_set : Cardinality(u) = MAX_KINDS}}

\* Destination.get_or_create_from_opentripmap: update_or_create(xid=xid,
\* defaults=...) on the Destination table; a found row is overwritten with the
\* defaults and saved (updated_at is auto_now), a new row gets the next id.
\* Gives the table after the call and the row returned.
get_or_create_from_opentripmap(destinations, data, now) ==
    LET found == {d \in destinations : d.xid = data.xid}
        defaults(id, created_at) ==
            [id |-> id, xid |-> data.xid, name |-> data.name, city |-> data.city,
             category |-> data.category, description |-> data.short_description,
             image_url |-> data.image, kinds |-> data.kinds, is_active |-> TRUE,
             created_at |-> created_at, updated_at |-> now]
        destination == IF found = {}
                       THEN defaults(Cardinality(destinations) + 1, now)
                       ELSE LET d == CHOOSE d \in found : TRUE
                            IN  defaults(d.id, d.created_at)
    IN  [destinations |-> (destinations \ found) \cup {destination},
         destination |-> destination]

\* SaveDestinationView.post: the tables after the request and its response.
\* `notified` is whether Notification.create_destination_saved succeeded.
SaveDestinationPost(st, trip_row, user, payload, notified) ==
    LET resolved ==
            IF payload.mode = "xid"
            THEN IF ~payload.valid
                 THEN [status |-> 400, detail |-> "invalid",
                       destinations |-> st.destinations, destination |-> None]
                 ELSE LET r == get_or_create_from_opentripmap(
                                   st.destinations,
                                   [xid |-> payload.xid, name |-> payload.name,
                                    city |-> trip_row.city,
                                    category |-> payload.category,
                                    short_description |-> "", image |-> "",
                                    kinds |-> ""],
                                   st.now)
                      IN  [status |-> 0, detail |-> "", destinations |-> r.destinations,
                           destination |-> r.destination.id]
            ELSE LET found == {d \in st.destinations :
                                 d.id = payload.destination_id /\ d.is_active}
                 IN  IF found = {}
                     THEN [status |-> 404, detail |-> "Not found.",
                           destinations |-> st.destinations, destination |-> None]
                     ELSE [status |-> 0, detail |-> "",
                           destinations |-> st.destinations,
                           destination |-> payload.destination_id]
        notes == IF payload.mode = "xid" THEN payload.notes ELSE ""
        existing == {t \in st.saved :
                       t.trip = trip_row.id /\ t.destination = resolved.destination}
        answer(status, detail) ==
            [status |-> status, detail |-> detail, trip |-> trip_row.id,
             xid |-> IF payload.mode = "xid" THEN payload.xid ELSE None,
             destinations_before |-> st.destinations, saved_before |-> st.saved]
    IN  IF resolved.status # 0
        THEN [st EXCEPT !.response = answer(resolved.status, resolved.detail),
                        !.now = @ + 1]
        ELSE IF existing # {}
        THEN [st EXCEPT !.destinations = resolved.destinations,
                        !.response = answer(400, "Destination already saved for this trip."),
                        !.now = @ + 1]
        ELSE [st EXCEPT !.destinations = resolved.destinations,
                        !.saved = @ \cup {[trip |-> trip_row.id,
                                           destination |-> resolved.destination,
                                           saved_by |-> user, notes |-> notes]},
                        !.notifications = IF notified THEN @ + 1 ELSE @,
                        !.response = answer(201, ""),
                        !.now = @ + 1]

\* _load_members_data: one entry is appended to self.members_data for every
\* accepted member; `accepted` are the accepted TripMember rows with the
\* Preference row of each (has_preference FALSE: Preference.DoesNotExist).
RECURSIVE _load_members_data(_, _)
_load_members_data(members_data, accepted) ==
    IF accepted = <<>> THEN members_data
    ELSE LET member == Head(accepted)
             entry == IF member.has_preference
                      THEN [user_id |-> member.user_id,
                            budget_range |-> member.budget_range,
                            travel_style |-> member.travel_style,
                            interests |-> member.interests]
                      ELSE [user_id |-> member.user_id, budget_range |-> None,
                            travel_style |-> None, interests |-> <<>>]
         IN  _load_members_data(Append(members_data, entry), Tail(accepted))

\* dict(Counter(values)): the pairs <<value, count>>
Distribution(values) ==
    {<<values[i], Count(values, values[i])>> : i \in 1..Len(values)}

\* Counter(values).most_common(1)[0][0] if the counter is not empty else None
Dominant(values) ==
    IF values = <<>> THEN None
    ELSE MostCommon(CounterKeys(values, {}), <<>>, values)[1]

\* get_group_analysis after its _load_members_data call: the dict it returns
get_group_analysis(members_data) ==
    LET interests == _get_dominant_interests(
                        [i \in 1..Len(members_data) |-> members_data[i].interests])
        all_budgets == [i \in 1..Len(members_data) |-> members_data[i].budget_range]
        all_styles == [i \in 1..Len(members_data) |-> members_data[i].travel_style]
        budgets == SelectSeq(all_budgets, LAMBDA b : b # None)
        styles == SelectSeq(all_styles, LAMBDA t : t # None)
    IN  [member_count |-> Len(members_data),
         dominant_interests |-> SubSeq(interests, 1,
                                       IF Len(interests) < TOP_INTERESTS
                                       THEN Len(interests) ELSE TOP_INTERESTS),
         budget_distribution |-> Distribution(budgets),
         dominant_budget |-> Dominant(budgets),
         style_distribution |-> Distribution(styles),
         dominant_style |-> Dominant(styles)]

AnyKeyword(keywords, kinds_lower) == \E k \in keywords : Contains(k, kinds_lower)

\* _categorize_place testing the adventure keywords before the nature ones
_categorize_place_adventure_first(kinds_str) ==
    LET kinds_lower == Lower(kinds_str)
    IN  IF AnyKeyword({K.sport, K.climbing, K.diving}, kinds_lower)
        THEN "adventure"
        ELSE IF AnyKeyword({K.natural, K.beach, K.mountain, K.park}, kinds_lower)
        THEN "nature"
        ELSE IF AnyKeyword({K.cultural, K.historic, K.museum, K.architecture}, kinds_lower)
        THEN "culture"
        ELSE IF AnyKeyword({K.food, K.restaurant, K.cafe}, kinds_lower)
        THEN "food"
        ELSE "culture"

_categorize_place(kinds_str) ==
    LET kinds_lower == Lower(kinds_str)
    IN  IF AnyKeyword({K.natural, K.beach, K.mountain, K.park}, kinds_lower)
        THEN "nature"
        ELSE IF AnyKeyword({K.sport, K.climbing, K.diving}, kinds_lower)
        THEN "adventure"
        ELSE IF AnyKeyword({K.cultural, K.historic, K.museum, K.architecture}, kinds_lower)
        THEN "culture"
        ELSE IF AnyKeyword({K.food, K.restaurant, K.cafe}, kinds_lower)
        THEN "food"
        ELSE "culture"

\* _ensure_coordinates: whether coordinates are available, the trip's
\* coordinates after it, what geocode_location returned to it, and the
\* geocoding requests issued.  A coordinate is None or a float, written as a
\* string; Python's truth test also rejects 0.0.
CoordTruthy(x) == x # None /\ x # "0.0"

\* geocode_location was not called
NotGeocoded == [lat |-> "not called", lon |-> "not called"]

\* _ensure_coordinates answering True whatever the geocoder returned
_ensure_coordinates_always_true(trip, response) ==
    IF CoordTruthy(trip.latitude) /\ CoordTruthy(trip.longitude)
    THEN [ok |-> TRUE, latitude |-> trip.latitude, longitude |-> trip.longitude,
          geocoded |-> NotGeocoded, requests |-> 0]
    ELSE LET g == geocode_location(trip.city, response)
         IN  IF g.lat = None \/ g.lon = None
             THEN [ok |-> TRUE, latitude |-> trip.latitude,
                   longitude |-> trip.longitude,
                   geocoded |-> [lat |-> g.lat, lon |-> g.lon],
                   requests |-> g.requests]
             ELSE [ok |-> TRUE, latitude |-> g.lat, longitude |-> g.lon,
                   geocoded |-> [lat |-> g.lat, lon |-> g.lon],
                   requests |-> g.requests]

_ensure_coordinates(trip, response) ==
    IF CoordTruthy(trip.latitude) /\ CoordTruthy(trip.longitude)
    THEN [ok |-> TRUE, latitude |-> trip.latitude, longitude |-> trip.longitude,
          geocoded |-> NotGeocoded, requests |-> 0]
    ELSE LET g == geocode_location(trip.city, response)
         IN  IF g.lat = None \/ g.lon = None
             THEN [ok |-> FALSE, latitude |-> trip.latitude,
                   longitude |-> trip.longitude,
                   geocoded |-> [lat |-> g.lat, lon |-> g.lon],
                   requests |-> g.requests]
             ELSE [ok |-> TRUE, latitude |-> g.lat, longitude |-> g.lon,
                   geocoded |-> [lat |-> g.lat, lon |-> g.lon],
                   requests |-> g.requests]

\* _format_place: the set of formatted places it can return, each with the
\* image cache and breaker flag the image resolver leaves behind.
_format_place(place, city, country, cache, disabled, key) ==
    LET details == IF place.has_details THEN place.details ELSE EmptyDetails
        merge == details.shape = "dict"             \* `if details:`
        m_xid == IF merge THEN details.xid ELSE place.xid
        m_name == IF merge /\ details.name # Absent THEN details.name ELSE place.name
        m_preview == IF merge THEN details.preview ELSE None
        place_name == m_name
        category == _categorize_place(place.kinds)
        \* STEP 1
        image1 == IF TruthyUrl(place.image) THEN place.image
                  ELSE IF TruthyUrl(m_preview) THEN m_preview
                  ELSE None
        source1 == IF TruthyUrl(image1) THEN "opentripmap" ELSE "fallback"
        Formatted(image, image_source) ==
            [xid |-> m_xid,
             name |-> IF Truthy(place_name) THEN place_name ELSE S_UnknownPlace,
             city |-> city, image |-> image, image_source |-> image_source,
             category |-> category, kinds |-> place.kinds]
        \* STEP 3
        Final(image, image_source) ==
            IF ~TruthyUrl(image)
            THEN Formatted(PickFallback(RECOMMENDER_FALLBACK_IMAGES, category, place_name),
                           "fallback")
            ELSE Formatted(image, image_source)
    IN  IF ~TruthyUrl(image1) /\ Truthy(place_name)
        THEN \* STEP 2
             {[formatted |-> Final(r.image_url, r.image_source), cache |-> r.cache,
               disabled |-> r.disabled, image_calls |-> 1,
               image_requests |-> r.requests, saw403 |-> r.saw403]
              : r \in get_place_image_with_fallback(place_name, city, country,
                                                    category, cache, disabled, key)}
        ELSE {[formatted |-> Final(image1, source1), cache |-> cache,
               disabled |-> disabled, image_calls |-> 0, image_requests |-> 0,
               saw403 |-> FALSE]}

\* KeepPlace decides the dedup step of the loop (lines 319-323)
KeepPlaceNoDedup(xid, seen_xids) == Truthy(xid)

KeepPlace(xid, seen_xids) == Truthy(xid) /\ xid \notin seen_xids

\* the loop guard of lines 316-317
LimitReachedOffByOne(recommendations, limit) == Len(recommendations) > limit

LimitReached(recommendations, limit) == Len(recommendations) >= limit

\* lines 312-335: the loop over the enriched places, from position i on
RECURSIVE FormatFrom(_, _, _, _, _, _, _, _, _, _, _, _)
FormatFrom(enriched, i, category, limit, city, country, recommendations, seen_xids, cache, disabled, key, image_calls) ==
    IF i > Len(enriched) \/ LimitReached(recommendations, limit)
    THEN {[recommendations |-> recommendations, cache |-> cache, disabled |-> disabled,
           image_calls |-> image_calls]}
    ELSE
      LET place == enriched[i]
          xid == place.xid
      IN  IF ~KeepPlace(xid, seen_xids)
          THEN FormatFrom(enriched, i + 1, category, limit, city, country,
                          recommendations, seen_xids, cache, disabled, key, image_calls)
          ELSE UNION {
                 IF category # None /\ category # "all"
                    /\ f.formatted.category # category
                 THEN FormatFrom(enriched, i + 1, category, limit, city, country,
                                 recommendations, seen_xids \cup {xid},
                                 f.cache, f.disabled, key, image_calls + f.image_calls)
                 ELSE FormatFrom(enriched, i + 1, category, limit, city, country,
                                 Append(recommendations, f.formatted),
                                 seen_xids \cup {xid}, f.cache, f.disabled, key,
                                 image_calls + f.image_calls)
                 : f \in _format_place(place, city, country, cache, disabled, key) }

\* a test that sends every invocation to the Overpass API as well
NeedsOverpassAlways(places) == TRUE

\* line 295, `if not places:` after the OpenTripMap call
NeedsOverpass(places) == places = <<>>

\* the provider calls of one invocation so far: none
NoCounts ==
    [radius_requests |-> 0, overpass_requests |-> 0, detail_requests |-> 0,
     poi_calls |-> 0, poi_log |-> <<>>, enrich_calls |-> 0, image_calls |-> 0]

MAX_DETAILS == 12

\* recommend: the set of ways one invocation can end, over every answer of
\* every external call it makes.  `raised` names the exception that leaves
\* recommend (None when it returns), `candidates` is the list the POI source
\* returned, `poi_calls` counts the calls to get_places_by_radius and
\* get_places_from_overpass, the *_requests fields the HTTP requests sent.  `st` is the state it reads: the API keys,
\* the bodies the POI providers answer with, the detail cache, the image
\* cache and the breaker flag.
recommend(trip, category, limit, st) ==
    LET End(raised, result, candidates, ec, dcache, cache, disabled, counts) ==
            [raised |-> raised, result |-> result, candidates |-> candidates,
             latitude |-> ec.latitude, longitude |-> ec.longitude,
             dcache |-> dcache, cache |-> cache, disabled |-> disabled,
             coords_ok |-> ec.ok, geocoded |-> ec.geocoded, geocode_requests |-> ec.requests,
             radius_requests |-> counts.radius_requests,
             overpass_requests |-> counts.overpass_requests,
             detail_requests |-> counts.detail_requests,
             poi_calls |-> counts.poi_calls, poi_log |-> counts.poi_log,
             enrich_calls |-> counts.enrich_calls, image_calls |-> counts.image_calls]
        \* lines 303-335
        AfterPlaces(places, ec, counts) ==
            IF places = <<>>
            THEN {End(None, <<>>, places, ec, st.dcache, st.cache, st.disabled, counts)}
            ELSE UNION {
                   IF e.exc # None
                   THEN {End(e.exc, <<>>, places, ec, e.dcache, st.cache, st.disabled,
                             [counts EXCEPT !.detail_requests = e.requests,
                                            !.enrich_calls = 1])}
                   ELSE {End(None, f.recommendations, places, ec, e.dcache, f.cache,
                             f.disabled,
                             [counts EXCEPT !.detail_requests = e.requests,
                                            !.enrich_calls = 1,
                                            !.image_calls = f.image_calls])
                         : f \in FormatFrom(e.enriched, 1, category, limit, trip.city,
                                            trip.country, <<>>, {}, st.cache,
                                            st.disabled, st.key, 0)}
                   : e \in get_places_with_details(places, MAX_DETAILS,
                                                   st.otm_api_key, st.dcache) }
        \* lines 284-301
        AfterCoordinates(ec) ==
            UNION {
                  LET c1 == [NoCounts EXCEPT
                               !.radius_requests = r1.requests, !.poi_calls = 1,
                               !.poi_log = <<[provider |-> "opentripmap",
                                              limit |-> limit * 2,
                                              returned |-> Len(r1.places),
                                              raised |-> r1.exc # None]>>]
                  IN  IF r1.exc # None
                      THEN {End(r1.exc, <<>>, <<>>, ec, st.dcache, st.cache,
                                st.disabled, c1)}
                      ELSE IF ~NeedsOverpass(r1.places)
                      THEN AfterPlaces(r1.places, ec, c1)
                      ELSE UNION {
                             AfterPlaces(r2.places, ec,
                                 [c1 EXCEPT
                                    !.overpass_requests = r2.requests, !.poi_calls = 2,
                                    !.poi_log = Append(c1.poi_log,
                                                   [provider |-> "overpass",
                                                    limit |-> limit * 2,
                                                    returned |-> Len(r2.places),
                                                    raised |-> FALSE])])
                             : r2 \in {get_places_from_overpass(ostatus, st.osm_body,
                                                                limit * 2)
                                        : ostatus \in HttpFailures \cup {"bad_body", "ok"}} }
              : r1 \in {get_places_by_radius(st.otm_api_key, rstatus, st.otm_body)
                        : rstatus \in HttpFailures \cup {"ok"}} }
    IN  UNION {
          IF ~ec.ok
          THEN {End(None, <<>>, <<>>, ec, st.dcache, st.cache, st.disabled, NoCounts)}
          ELSE AfterCoordinates(ec)
          : ec \in {_ensure_coordinates(trip, gresponse)
                    : gresponse \in GeocodeResponses} }

----------------------------------------------------------------------------
(* buddies/services.py: BuddyMatchingService *)

\* Matching weights, in hundredths (services.py lines 16-19)
INTEREST_WEIGHT == 50
BUDGET_WEIGHT == 20
TRAVEL_STYLE_WEIGHT == 20
DURATION_WEIGHT == 10

\* A component score is a fraction num/den of points; the shared interests are
\* a set.
Points(n) == [num |-> n, den |-> 1]

\* Jaccard similarity computed as union over intersection
_calculate_interest_score_inverted(user_interests, other_interests) ==
    IF user_interests = {} /\ other_interests = {}
    THEN Points(50)
    ELSE IF user_interests = {} \/ other_interests = {}
    THEN Points(0)
    ELSE IF user_interests \cap other_interests = {}
    THEN Points(0)
    ELSE [num |-> Cardinality(user_interests \cup other_interests) * 100,
          den |-> Cardinality(user_interests \cap other_interests)]

\* the overlap divided by the user's own interests instead of the union
_calculate_interest_score_over_user(user_interests, other_interests) ==
    IF user_interests = {} /\ other_interests = {}
    THEN Points(50)
    ELSE IF user_interests = {} \/ other_interests = {}
    THEN Points(0)
    ELSE [num |-> Cardinality(user_interests \cap other_interests) * 100,
          den |-> Cardinality(user_interests)]

\* _calculate_interest_score without the neutral score for two empty sets
_calculate_interest_score_no_neutral(user_interests, other_interests) ==
    IF user_interests = {} \/ other_interests = {}
    THEN Points(0)
    ELSE [num |-> Cardinality(user_interests \cap other_interests) * 100,
          den |-> Cardinality(user_interests \cup other_interests)]

_calculate_interest_score(user_interests, other_interests) ==
    IF user_interests = {} /\ other_interests = {}
    THEN Points(50)
    ELSE IF user_interests = {} \/ other_interests = {}
    THEN Points(0)
    ELSE LET intersection == user_interests \cap other_interests
             union == user_interests \cup other_interests
         IN  IF union = {}
             THEN Points(0)
             ELSE [num |-> Cardinality(intersection) * 100,
                   den |-> Cardinality(union)]

_calculate_exact_match_score(value1, value2) ==
    IF value1 = value2 THEN 100 ELSE 0

budget_order == <<"low", "medium", "high">>

\* list.index
Index(list, v) == CHOOSE i \in 1..Len(list) : list[i] = v

Abs(n) == IF n < 0 THEN 0 - n ELSE n

\* _calculate_budget_score without the shortcut for equal budgets
_calculate_budget_score_no_equal(budget1, budget2) ==
    IF ~(\E i \in 1..Len(budget_order) : budget_order[i] = budget1)
       \/ ~(\E i \in 1..Len(budget_order) : budget_order[i] = budget2)
    THEN 0
    ELSE IF Abs(Index(budget_order, budget1) - Index(budget_order, budget2)) = 1
    THEN 50
    ELSE 0

\* _calculate_budget_score giving the partial credit to any two different
\* budgets
_calculate_budget_score_any_diff(budget1, budget2) ==
    IF budget1 = budget2
    THEN 100
    ELSE IF ~(\E i \in 1..Len(budget_order) : budget_order[i] = budget1)
            \/ ~(\E i \in 1..Len(budget_order) : budget_order[i] = budget2)
    THEN 0
    ELSE IF Abs(Index(budget_order, budget1) - Index(budget_order, budget2)) >= 1
    THEN 50
    ELSE 0

_calculate_budget_score(budget1, budget2) ==
    IF budget1 = budget2
    THEN 100
    ELSE IF ~(\E i \in 1..Len(budget_order) : budget_order[i] = budget1)
            \/ ~(\E i \in 1..Len(budget_order) : budget_order[i] = budget2)
    THEN 0                                        \* except ValueError
    ELSE IF Abs(Index(budget_order, budget1) - Index(budget_order, budget2)) = 1
    THEN 50
    ELSE 0

\* round(x, 1) of x = num/den points, in tenths of a point: to the nearest
\* tenth, a tie to the even one
RoundTenths(num, den) ==
    LET q == (num * 10) \div den
        r == (num * 10) % den
    IN  IF 2 * r < den THEN q
        ELSE IF 2 * r > den THEN q + 1
        ELSE IF q % 2 = 0 THEN q ELSE q + 1

\* No Preference row
NoPreference == [exists |-> FALSE, budget_range |-> None, travel_style |-> None,
                 preferred_trip_duration |-> None, interests |-> {}]

\* _calculate_match_score of the service built for the user with
\* `user_preferences`: the score in tenths of a point and the shared
\* interests, with the values of its locals interest_score and budget_score
\* (`computed` tells whether it got as far as computing them)
_calculate_match_score(user_preferences, other_preferences) ==
    IF ~user_preferences.exists \/ ~other_preferences.exists
    THEN [score |-> 0, shared_interests |-> {}, computed |-> FALSE,
          interest_score |-> Points(0), budget_score |-> 0]
    ELSE
      LET user_interest_ids == user_preferences.interests
          other_interest_ids == other_preferences.interests
          interest_score == _calculate_interest_score(user_interest_ids,
                                                      other_interest_ids)
          budget_score == _calculate_budget_score(user_preferences.budget_range,
                                                  other_preferences.budget_range)
          style_score == _calculate_exact_match_score(user_preferences.travel_style,
                                                      other_preferences.travel_style)
          duration_score ==
              _calculate_exact_match_score(user_preferences.preferred_trip_duration,
                                           other_preferences.preferred_trip_duration)
          \* total_score * 100 * interest_score.den
          total_num == interest_score.num * INTEREST_WEIGHT
                         + interest_score.den * (budget_score * BUDGET_WEIGHT
                                                   + style_score * TRAVEL_STYLE_WEIGHT
                                                   + duration_score * DURATION_WEIGHT)
      IN  [score |-> RoundTenths(total_num, 100 * interest_score.den),
           shared_interests |-> user_interest_ids \cap other_interest_ids,
           computed |-> TRUE,
           interest_score |-> interest_score, budget_score |-> budget_score]

\* matches.sort(key=match_score, reverse=True): a stable sort, by insertion
RECURSIVE InsertByScore(_, _)
InsertByScore(sorted, m) ==
    IF sorted = <<>> THEN <<m>>
    ELSE IF Head(sorted).match_score >= m.match_score
    THEN <<Head(sorted)>> \o InsertByScore(Tail(sorted), m)
    ELSE <<m>> \o sorted

RECURSIVE SortByScore(_)
SortByScore(matches) ==
    IF matches = <<>> THEN <<>>
    ELSE InsertByScore(SortByScore(SubSeq(matches, 1, Len(matches) - 1)),
                       matches[Len(matches)])

\* the loop of get_matches over other_users_with_prefs (lines 204-213)
RECURSIVE CollectMatches(_, _, _, _)
CollectMatches(user_preferences, others, i, min_score) ==
    IF i > Len(others) THEN <<>>
    ELSE LET r == _calculate_match_score(user_preferences, others[i].preferences)
             rest == CollectMatches(user_preferences, others, i + 1, min_score)
         IN  IF r.score >= min_score
             THEN <<[user |-> others[i].user, match_score |-> r.score,
                     shared_interests |-> r.shared_interests]>> \o rest
             ELSE rest

\* get_matches without the early return for a user who has no Preference row
get_matches_no_guard(user_preferences, others, limit, min_score) ==
    LET matches == SortByScore(CollectMatches(user_preferences, others, 1, min_score))
    IN  SubSeq(matches, 1, IF Len(matches) < limit THEN Len(matches) ELSE limit)

\* get_matches: `others` are the Preference rows of the other users, each
\* with its user; limit >= 0
get_matches(user_preferences, others, limit, min_score) ==
    IF ~user_preferences.exists
    THEN <<>>
    ELSE LET matches == SortByScore(CollectMatches(user_preferences, others, 1,
                                                   min_score))
         IN  SubSeq(matches, 1, IF Len(matches) < limit THEN Len(matches) ELSE limit)

----------------------------------------------------------------------------
(* State *)

VARIABLES
    unsplash_disabled,  \* cache.get(UNSPLASH_DISABLED_KEY): the breaker flag
    image_cache,        \* the DestinationImageCache table: set of rows
    access_key,         \* settings.UNSPLASH_ACCESS_KEY is configured
    tripped,            \* a request answered 403 and the flag has not expired or been reset since
    calls,              \* history of get_place_image_with_fallback calls
    trip,               \* the Trip row: city, country, latitude, longitude
    otm_api_key,        \* settings.OPENTRIPMAP_API_KEY is configured
    otm_body,           \* JSON body of a 200 answer of the OpenTripMap radius endpoint
    osm_body,           \* elements of a 200 answer of the Overpass API
    detail_cache,       \* the opentripmap_details_<xid> cache entries
    last,               \* the last recommend invocation: its arguments and how it ended
    enrich,             \* a get_places_with_details call: its arguments and how it ended
    detail_log,         \* history of get_place_details calls and detail-cache expiries
    categorized,        \* a _categorize_place call: its argument and its result
    kinds_call,         \* the kind filter computed for a group: the members' interests, the result
    query_call,         \* a get_place_image_with_fallback call and the queries it took up
    workers,            \* concurrent requests inside _search_unsplash: where each one is
    store,              \* the Destination and TripSavedDestination tables and the last save response
    group,              \* a TripRecommender instance: the accepted members, self.members_data, the analyses returned
    prefs,              \* the Preference rows of two users a and b
    scored              \* what a's service returned for b, and b's service for a

imageVars == <<unsplash_disabled, image_cache, access_key, tripped, calls>>

recVars == <<trip, otm_api_key, otm_body, osm_body, detail_cache, last, enrich>>

scoreVars == <<prefs, scored>>

auxVars == <<detail_log, categorized, kinds_call, query_call, group, store, workers>>

vars == <<imageVars, recVars, scoreVars, auxVars>>

----------------------------------------------------------------------------
(* Inputs *)

\* place names, cities, countries and xids the requests carry
Sample ==
    [ Fort |-> <<"F", "o", "r", "t">>,
      FortSp |-> <<"F", "o", "r", "t", " ">>,
      Goa |-> <<"G", "o", "a">>,
      India |-> <<"I", "n", "d", "i", "a">>,
      x1 |-> <<"x", "1">>,
      x2 |-> <<"x", "2">> ]

MaxCalls == 2

\* Elements of the radius endpoint's list: two places with the same xid and
\* different tags, and a place with another xid and a tag no rule matches.
OtmElements ==
    { [shape |-> "dict", xid |-> Sample.x1, name |-> Sample.Fort, kinds |-> K.natural],
      [shape |-> "dict", xid |-> Sample.x1, name |-> Sample.Fort, kinds |-> K.foods],
      [shape |-> "dict", xid |-> Sample.x2, name |-> Sample.Fort, kinds |-> K.shops] }

\* An element of the list that is not a JSON object
NonDictElement == [shape |-> "nondict", xid |-> <<>>, name |-> <<>>, kinds |-> <<>>]

MaxPlaces == 2

SeqsUpTo(S, n) == UNION {[1..k -> S] : k \in 0..n}

\* JSON bodies of the radius endpoint: lists of places, lists holding an element
\* that is not an object, an object, a scalar.
OtmBodies ==
    {[shape |-> "list", items |-> l] : l \in SeqsUpTo(OtmElements, MaxPlaces)}
        \cup {[shape |-> "list", items |-> <<NonDictElement>>],
              [shape |-> "list",
               items |-> <<[shape |-> "dict", xid |-> Sample.x2, name |-> Sample.Fort,
                            kinds |-> K.shops], NonDictElement>>],
              [shape |-> "dict", items |-> <<>>],
              [shape |-> "scalar", items |-> <<>>]}

OsmMuseum ==
    [id |-> <<"1">>,
     tags |-> [name |-> Sample.Fort, tourism |-> K.museum, historic |-> Absent,
               leisure |-> Absent, amenity |-> Absent]]

OsmRestaurant ==
    [id |-> <<"2">>,
     tags |-> [name |-> Sample.Fort, tourism |-> Absent, historic |-> Absent,
               leisure |-> Absent, amenity |-> K.restaurant]]

Trips ==
    {[city |-> Sample.Goa, country |-> Sample.India, latitude |-> c[1], longitude |-> c[2]]
        : c \in {<<None, None>>, <<"15.3", "74.1">>, <<"0.0", "74.1">>}}

\* the values requests, rows and provider answers are drawn from
Inputs ==
    [ PlaceNames |-> {Sample.Fort, Sample.FortSp},
      Cities |-> {<<>>, Sample.Goa},
      Countries |-> {<<>>, Sample.India},
      \* "nature" has a keyword and a curated list of its own; "shopping" has neither
      Categories |-> {"nature", "shopping"},
      OsmBodies |-> {<<>>, <<OsmMuseum, OsmRestaurant>>, <<OsmMuseum, OsmMuseum>>},
      \* the `category` the view passes on (it turns 'all' into None) and clamps
      \* `limit` to 1..100
      RecCategories |-> {None, "nature", "gastronomy"},
      \* The image-cache table is persistent: it is empty, or holds a row an earlier
      \* run of the service stored for the full query of (Fort, Goa, India).
      InitialCaches |-> { {},
          {[query |-> Strip(Lower(Sample.Fort \o SP \o Sample.Goa \o SP \o Sample.India)),
            image_url |-> "https://images.unsplash.com/photo-provider-1",
            image_source |-> "unsplash"]} },
      \* the category filter values the recommend docstring documents
      DocumentedCategories |-> {"nature", "adventure", "culture", "gastronomy"},
      \* candidates as get_places_by_radius and get_places_from_overpass produce
      \* them: two OpenTripMap places, an Overpass place, a place with a blank xid
      Candidates |-> { [xid |-> Sample.x1, name |-> Sample.Fort, kinds |-> K.natural],
          [xid |-> Sample.x2, name |-> Sample.Fort, kinds |-> K.shops],
          [xid |-> OSM_PREFIX \o <<"7">>, name |-> Sample.Fort, kinds |-> K.foods],
          [xid |-> <<>>, name |-> Sample.Fort, kinds |-> K.natural] },
      \* what earlier calls left in the detail cache
      InitialDetailCaches |-> { {},
          {[xid |-> Sample.x1, payload |-> EmptyDetails, ttl |-> DETAILS_FAILURE_TIMEOUT]} },
      DetailXids |-> {Sample.x1, Sample.x2},
      \* kind tags as the providers send them: every keyword of the rules, plurals
      \* and capitalized forms that contain one, and tags that contain none
      KindTags |-> { K.natural, K.beach, K.mountain, K.park, K.sport, K.climbing, K.diving,
          K.cultural, K.historic, K.museum, K.architecture, K.food, K.restaurant,
          K.cafe, K.foods, K.shops, K.Natural, K.BEACHES, K.museums },
      \* arguments with blank and padded values
      QueryNames |-> {<<>>, Sample.Fort, Sample.FortSp},
      QueryCities |-> {<<>>, SP, Sample.Goa},
      QueryCountries |-> {<<>>, Sample.India},
      \* image-cache tables an earlier run left: empty, or one row under the first,
      \* the second or the third candidate query of (Fort, Goa, India, nature)
      QueryCaches |-> { {} } \cup
        { {[query |-> q, image_url |-> "https://images.unsplash.com/photo-provider-1",
            image_source |-> "unsplash"]}
          : q \in { Strip(Lower(Sample.Fort \o SP \o Sample.Goa \o SP \o Sample.India)),
                    Strip(Lower(Sample.Goa \o SP \o KW.nature)),
                    Strip(Lower(Sample.Goa \o SP \o Sample.India)) } },
      \* the trips a request can name: id and city
      SaveTrips |-> {[id |-> 1, city |-> Sample.Goa], [id |-> 2, city |-> <<>>]},
      \* Preference.BudgetRange, and some of Preference.TravelStyle and Duration
      BudgetRanges |-> {"low", "medium", "high"},
      TravelStyles |-> {"solo", "group"},
      Durations |-> {"weekend", "long"},
      \* min_score thresholds, in tenths: the default 0.0, and 50.0
      MinScores |-> {0, 500} ]

MaxLimit == 2

\* the value each state variable has while the operation it records has not run
Idle ==
    [ NotEnriched |-> [done |-> FALSE, places |-> <<>>, max_details |-> 0, exc |-> None,
         result |-> <<>>, requests |-> 0],
      NoCall |-> [category |-> None, limit |-> 0, raised |-> None, result |-> <<>>,
         candidates |-> <<>>, trip_before |-> [latitude |-> None, longitude |-> None],
         coords_ok |-> FALSE, geocoded |-> NotGeocoded, geocode_requests |-> 0, radius_requests |-> 0,
         overpass_requests |-> 0, detail_requests |-> 0, poi_calls |-> 0,
         poi_log |-> <<>>, enrich_calls |-> 0, image_calls |-> 0,
         stores_before |-> [image_cache |-> {}, detail_cache |-> {},
                            unsplash_disabled |-> FALSE],
         done |-> FALSE],
      IdleTrip |-> [city |-> <<>>, country |-> <<>>, latitude |-> None, longitude |-> None],
      NotScored |-> [done |-> FALSE, score |-> 0, shared_interests |-> {},
                  computed |-> FALSE, interest_score |-> Points(0), budget_score |-> 0],
      NotMatched |-> [done |-> FALSE, min_score |-> 0, result |-> <<>>],
      NotCategorized |-> [done |-> FALSE, kinds_str |-> <<>>, category |-> None],
      NoKindsCall |-> [done |-> FALSE, members_data |-> <<>>, interests |-> <<>>, is_none |-> TRUE,
         kinds |-> {}],
      NoQueryCall |-> [done |-> FALSE, place_name |-> <<>>, city |-> <<>>, country |-> <<>>,
         category |-> None, cache_at_start |-> {}, disabled_at_start |-> FALSE,
         tried |-> <<>>, ended |-> None, requests |-> 0],
      NoWorkers |-> <<>>,
      NoStore |-> [destinations |-> {}, saved |-> {}, notifications |-> 0, now |-> 0,
                response |-> [status |-> 0, detail |-> "", trip |-> 0, xid |-> None,
                              destinations_before |-> {}, saved_before |-> {}]],
      NoGroup |-> [accepted |-> <<>>, members_data |-> <<>>, analyses |-> <<>>, calls |-> 0],
      IdleWorker |-> [pc |-> "start", searches |-> 0, sent |-> 0, sent_while_disabled |-> FALSE,
                   checked_disabled |-> FALSE, image_url |-> None] ]

AuxIdle ==
    /\ group = Idle.NoGroup
    /\ store = Idle.NoStore
    /\ workers = Idle.NoWorkers
    /\ detail_log = <<>>
    /\ categorized = Idle.NotCategorized
    /\ kinds_call = Idle.NoKindsCall
    /\ query_call = Idle.NoQueryCall

ScoreIdle ==
    /\ prefs = [a |-> NoPreference, b |-> NoPreference]
    /\ scored = [ab |-> Idle.NotScored, ba |-> Idle.NotScored, matches |-> Idle.NotMatched]

RecIdle ==
    /\ trip = Idle.IdleTrip
    /\ otm_api_key = FALSE
    /\ otm_body = [shape |-> "scalar", items |-> <<>>]
    /\ osm_body = <<>>
    /\ detail_cache = {}
    /\ last = Idle.NoCall
    /\ enrich = Idle.NotEnriched

----------------------------------------------------------------------------
(* Image resolver: specification *)

\* the normalized candidate queries of a call
QueriesOf(place_name, city, country, category) ==
    LET queries == BuildQueries(Strip(place_name), Strip(city), Strip(country),
                                category)
    IN  {Strip(Lower(queries[i])) : i \in 1..Len(queries)}

InitImage ==
    /\ unsplash_disabled = FALSE
    /\ image_cache \in Inputs.InitialCaches
    /\ access_key \in BOOLEAN
    /\ tripped = FALSE
    /\ calls = <<>>
    /\ RecIdle
    /\ ScoreIdle
    /\ AuxIdle

\* One whole call of unsplash_service.get_place_image_with_fallback
ResolveImage ==
    /\ Len(calls) < MaxCalls
    /\ \E place_name \in Inputs.PlaceNames, city \in Inputs.Cities, country \in Inputs.Countries,
          category \in Inputs.Categories :
         \E r \in get_place_image_with_fallback(place_name, city, country, category,
                                                image_cache, unsplash_disabled,
                                                access_key) :
            /\ image_cache' = r.cache
            /\ unsplash_disabled' = r.disabled
            /\ tripped' = (tripped \/ r.saw403)
            /\ calls' = Append(calls,
                   [place_name |-> place_name, city |-> city, country |-> country,
                    category |-> category, image_url |-> r.image_url,
                    image_source |-> r.image_source, requests |-> r.requests,
                    saw403 |-> r.saw403, tripped_at_start |-> tripped,
                    disabled_at_start |-> unsplash_disabled,
                    queried |-> r.queried, ended |-> r.ended,
                    disabled_at_end |-> r.disabled,
                    cached_at_start |->
                        {e.query : e \in image_cache}
                            \cap QueriesOf(place_name, city, country, category)])
    /\ UNCHANGED <<access_key, recVars, scoreVars, auxVars>>

\* The flag's time box (UNSPLASH_DISABLED_TIMEOUT) elapses
BreakerExpire ==
    /\ unsplash_disabled
    /\ unsplash_disabled' = FALSE
    /\ tripped' = FALSE
    /\ UNCHANGED <<image_cache, access_key, calls, recVars, scoreVars, auxVars>>

\* unsplash_status --reset deleting another cache key than the flag's
BreakerResetWrongKey ==
    /\ access_key
    /\ tripped' = FALSE
    /\ UNCHANGED <<unsplash_disabled, image_cache, access_key, calls, recVars, scoreVars, auxVars>>

\* manage.py unsplash_status --reset: cache.delete(UNSPLASH_DISABLED_KEY)
BreakerReset ==
    /\ access_key
    /\ unsplash_disabled' = FALSE
    /\ tripped' = FALSE
    /\ UNCHANGED <<image_cache, access_key, calls, recVars, scoreVars, auxVars>>

NextImage == ResolveImage \/ BreakerExpire \/ BreakerReset

SpecImage == InitImage /\ [][NextImage]_vars

----------------------------------------------------------------------------
(* Image resolver: properties *)

SameArgs(a, b) ==
    /\ a.place_name = b.place_name
    /\ a.city = b.city
    /\ a.country = b.country
    /\ a.category = b.category

\* C1: two successive calls of get_place_image_with_fallback with the same
\* (place_name, city, country, category) return the identical (url, source)
\* pair and together issue at most one request to the image provider.
C1_CacheIdempotent ==
    \A i \in 1..(Len(calls) - 1) :
        SameArgs(calls[i], calls[i + 1]) =>
            /\ calls[i].image_url = calls[i + 1].image_url
            /\ calls[i].image_source = calls[i + 1].image_source
            /\ calls[i].requests + calls[i + 1].requests <= 1

\* C2: once a provider request has answered 403, every call that starts
\* before the breaker flag expires or is reset returns a result with source
\* 'fallback' and issues no provider request, whatever the image cache holds.
C2_BreakerShortCircuits ==
    \A i \in 1..Len(calls) :
        calls[i].tripped_at_start =>
            /\ calls[i].image_source = "fallback"
            /\ calls[i].requests = 0

\* A call that started after a 403, for arguments whose first candidate query
\* has an 'unsplash' row in the image cache.
C2_Witness ==
    \E i \in 1..Len(calls) :
        /\ calls[i].tripped_at_start
        /\ calls[i].image_source = "fallback"
        /\ LET c == calls[i]
               qs == BuildQueries(Strip(c.place_name), Strip(c.city),
                                  Strip(c.country), c.category)
           IN  \E e \in image_cache :
                  /\ e.query = Strip(Lower(qs[1]))
                  /\ e.image_source = "unsplash"

\* C7: for a fixed category, any two calls with the same (place_name, city)
\* that both return source 'fallback' return the same URL, whether through the
\* breaker short-circuit or after the query chain was exhausted.
C7_FallbackDeterministic ==
    \A i, j \in 1..Len(calls) :
        ( /\ calls[i].place_name = calls[j].place_name
          /\ calls[i].city = calls[j].city
          /\ calls[i].category = calls[j].category
          /\ calls[i].image_source = "fallback"
          /\ calls[j].image_source = "fallback" )
        => calls[i].image_url = calls[j].image_url

\* C14: in a call in which a provider request answers 403, the breaker flag
\* is set, no further provider request is issued in that call, and the call
\* returns the step-4 curated fallback with source 'fallback', not a result
\* taken from a later candidate query.
C14_ForbiddenAbandonsChain ==
    \A i \in 1..Len(calls) :
        calls[i].saw403 =>
            /\ calls[i].disabled_at_end
            /\ \A k \in 1..Len(calls[i].queried) :
                   calls[i].queried[k].forbidden => k = Len(calls[i].queried)
            /\ calls[i].ended = "step4"
            /\ calls[i].image_source = "fallback"

\* C15: after a call ended in the step-4 fallback and stored it in the image
\* cache, a later call for the same (place_name, city, country) that starts
\* with the breaker not set returns the cached fallback without any provider
\* request.
C15_CachedFallbackReused ==
    \A i, j \in 1..Len(calls) :
        ( /\ i < j
          /\ calls[i].place_name = calls[j].place_name
          /\ calls[i].city = calls[j].city
          /\ calls[i].country = calls[j].country
          /\ calls[i].ended = "step4"
          /\ ~calls[j].disabled_at_start )
        => /\ calls[j].requests = 0
           /\ calls[j].image_source = "fallback"

\* C16: the provider is requested at most once for each normalized query
\* string, and the image cache holds at most one row for a query.
C16_OneRequestPerQuery ==
    /\ \A i, j \in 1..Len(calls) :
         \A k \in 1..Len(calls[i].queried), l \in 1..Len(calls[j].queried) :
            (<<i, k>> # <<j, l>>)
                => calls[i].queried[k].query # calls[j].queried[l].query
    /\ \A e1, e2 \in image_cache : e1.query = e2.query => e1 = e2

\* the first candidate query of a logged call, normalized
FirstQuery(c) ==
    Strip(Lower(BuildQueries(Strip(c.place_name), Strip(c.city), Strip(c.country),
                             c.category)[1]))

\* C18: once the time box has elapsed or unsplash_status --reset has run, the
\* flag is unset; and the next call whose candidate query is not in the image
\* cache issues a provider request again.
C18_BreakerClears ==
    /\ unsplash_disabled => tripped
    /\ \A j \in 1..Len(calls) :
          ( /\ \E i \in 1..(j - 1) : calls[i].saw403
            /\ ~calls[j].tripped_at_start
            /\ FirstQuery(calls[j]) \notin calls[j].cached_at_start )
          => calls[j].requests >= 1

\* a call that tripped the breaker, then, after the flag was cleared, a call
\* that asked the provider again
C18_Witness ==
    /\ Len(calls) = 2
    /\ calls[1].saw403
    /\ ~calls[2].tripped_at_start
    /\ ~calls[2].disabled_at_start
    /\ calls[2].requests >= 1

\* C19: the breaker flag goes from unset to set only in a step in which a
\* provider request answered 403; no other failure sets it.
C19_OnlyForbiddenTrips ==
    [][ (~unsplash_disabled /\ unsplash_disabled')
          => /\ Len(calls') = Len(calls) + 1
             /\ calls'[Len(calls')].saw403
             /\ \E k \in 1..Len(calls'[Len(calls')].queried) :
                    calls'[Len(calls')].queried[k].forbidden ]_vars

\* a call whose requests failed without a 403 left the flag unset, and the
\* next call, answered 403, set it
C19_Witness ==
    /\ Len(calls) = 2
    /\ calls[1].requests >= 1
    /\ calls[1].ended = "step4"
    /\ ~calls[1].saw403
    /\ ~calls[1].disabled_at_end
    /\ calls[2].saw403
    /\ unsplash_disabled

----------------------------------------------------------------------------
(* TripRecommender: specification *)

\* What earlier requests left in the shared stores: nothing; the breaker flag
\* of an earlier 403; or an image row and a cached detail dict for the first
\* place.
RecStores ==
    { [image_cache |-> {}, detail_cache |-> {}, unsplash_disabled |-> FALSE],
      [image_cache |-> {}, detail_cache |-> {}, unsplash_disabled |-> TRUE],
      [image_cache |-> {[query |-> Strip(Lower(Sample.Fort \o SP \o Sample.Goa \o SP \o Sample.India)),
                         image_url |-> "https://images.unsplash.com/photo-provider-1",
                         image_source |-> "unsplash"]},
       detail_cache |-> {[xid |-> Sample.x1,
                          payload |-> [shape |-> "dict", xid |-> Sample.x1,
                                       preview |-> "https://upload.wikimedia.org/poi.jpg",
                                       name |-> Absent, text |-> S_Extract],
                          ttl |-> DETAILS_CACHE_TIMEOUT]},
       unsplash_disabled |-> FALSE] }

InitRec ==
    /\ \E s \in RecStores :
         /\ unsplash_disabled = s.unsplash_disabled
         /\ image_cache = s.image_cache
         /\ detail_cache = s.detail_cache
         /\ tripped = s.unsplash_disabled
    /\ access_key = TRUE
    /\ calls = <<>>
    /\ trip \in Trips
    /\ otm_api_key \in BOOLEAN
    /\ otm_body \in OtmBodies
    \* without an API key no request reaches OpenTripMap: one body stands for all
    /\ otm_api_key \/ otm_body = [shape |-> "scalar", items |-> <<>>]
    /\ osm_body \in Inputs.OsmBodies
    /\ last = Idle.NoCall
    /\ enrich = Idle.NotEnriched
    /\ ScoreIdle
    /\ AuxIdle

\* One whole request: recommend_for_trip(trip, category, limit) builds a
\* TripRecommender of its own and runs recommend once. A behaviour of this
\* specification holds one request; what earlier requests left behind is drawn
\* by InitRec.
Recommend ==
    /\ ~last.done
    /\ \E category \in Inputs.RecCategories, limit \in 1..MaxLimit :
      \E r \in recommend(trip, category, limit,
                         [otm_api_key |-> otm_api_key, otm_body |-> otm_body,
                          osm_body |-> osm_body, dcache |-> detail_cache,
                          cache |-> image_cache, disabled |-> unsplash_disabled,
                          key |-> access_key]) :
        /\ trip' = [trip EXCEPT !.latitude = r.latitude, !.longitude = r.longitude]
        /\ detail_cache' = r.dcache
        /\ image_cache' = r.cache
        /\ unsplash_disabled' = r.disabled
        /\ tripped' = (tripped \/ (r.disabled /\ ~unsplash_disabled))
        /\ last' = [category |-> category, limit |-> limit, raised |-> r.raised,
                    result |-> r.result, candidates |-> r.candidates,
                    trip_before |-> [latitude |-> trip.latitude,
                                     longitude |-> trip.longitude],
                    coords_ok |-> r.coords_ok, geocoded |-> r.geocoded,
                    geocode_requests |-> r.geocode_requests,
                    radius_requests |-> r.radius_requests,
                    overpass_requests |-> r.overpass_requests,
                    detail_requests |-> r.detail_requests,
                    poi_calls |-> r.poi_calls, poi_log |-> r.poi_log,
                    enrich_calls |-> r.enrich_calls, image_calls |-> r.image_calls,
                    stores_before |-> [image_cache |-> image_cache,
                                       detail_cache |-> detail_cache,
                                       unsplash_disabled |-> unsplash_disabled],
                    done |-> TRUE]
        /\ UNCHANGED <<access_key, calls, otm_api_key, otm_body, osm_body, enrich,
                       scoreVars, auxVars>>

NextRec == Recommend \/ BreakerExpire

SpecRec == InitRec /\ [][NextRec]_vars

----------------------------------------------------------------------------
(* TripRecommender: properties *)

\* C3: whatever the external calls of one recommend invocation answer (timeout,
\* connection error, HTTP error status, non-JSON body, JSON of an unexpected
\* shape, missing API key), recommend returns a list and no exception leaves it.
C3_NeverRaises == last.done => last.raised = None

\* C4: when the trip has no usable saved coordinates and geocode_location
\* returns (None, None), recommend returns [], calls neither
\* get_places_by_radius nor get_places_from_overpass, and leaves the trip's
\* latitude and longitude as they were.
C4_NoCoordinatesNoPoiCall ==
    ( /\ last.done
      /\ ~(CoordTruthy(last.trip_before.latitude)
           /\ CoordTruthy(last.trip_before.longitude))
      /\ last.geocoded = [lat |-> None, lon |-> None] )
    => /\ last.raised = None
       /\ last.result = <<>>
       /\ last.poi_calls = 0
       /\ last.radius_requests = 0
       /\ last.overpass_requests = 0
       /\ trip.latitude = last.trip_before.latitude
       /\ trip.longitude = last.trip_before.longitude

C4_Witness ==
    /\ last.done
    /\ last.trip_before.latitude = None
    /\ last.trip_before.longitude = None
    /\ last.geocode_requests = 1
    /\ last.geocoded = [lat |-> None, lon |-> None]
    /\ last.result = <<>>

\* C17: a trip whose latitude and longitude are both non-null is not geocoded
\* again, whatever the coordinate values: recommend sends no geocoding request
\* and leaves the trip's latitude and longitude as they were.
C17_SavedCoordinatesTrusted ==
    ( /\ last.done
      /\ last.trip_before.latitude # None
      /\ last.trip_before.longitude # None )
    => /\ last.coords_ok
       /\ last.geocoded = NotGeocoded
       /\ last.geocode_requests = 0
       /\ trip.latitude = last.trip_before.latitude
       /\ trip.longitude = last.trip_before.longitude

\* the provider calls of the last invocation, as the claim orders them
PoiCallsInOrder ==
    /\ Len(last.poi_log) >= 1
    /\ last.poi_log[1].provider = "opentripmap"
    /\ last.poi_log[1].limit = last.limit * 2
    /\ Cardinality({k \in 1..Len(last.poi_log) :
                      last.poi_log[k].provider = "opentripmap"}) = 1
    /\ Cardinality({k \in 1..Len(last.poi_log) :
                      last.poi_log[k].provider = "overpass"}) <= 1
    /\ (\E k \in 1..Len(last.poi_log) : last.poi_log[k].provider = "overpass")
         <=> (~last.poi_log[1].raised /\ last.poi_log[1].returned = 0)
    /\ \A k \in 1..Len(last.poi_log) :
         last.poi_log[k].provider = "overpass" => last.poi_log[k].limit = last.limit * 2
    /\ (\A k \in 1..Len(last.poi_log) : last.poi_log[k].returned = 0)
         /\ last.raised = None
         => /\ last.result = <<>>
            /\ last.enrich_calls = 0
            /\ last.detail_requests = 0
            /\ last.image_calls = 0
            /\ image_cache = last.stores_before.image_cache
            /\ detail_cache = last.stores_before.detail_cache

C24_FilterKeepsOwnKinds ==
    ( /\ last.done
      /\ last.raised = None
      /\ last.category \in Inputs.DocumentedCategories )
    => \A i \in 1..Len(last.candidates) :
         ( /\ i <= last.limit
           /\ last.candidates[i].kinds = CATEGORY_TO_KINDS[last.category]
           /\ \A k \in 1..(i - 1) : last.candidates[k].xid # last.candidates[i].xid )
         => /\ _categorize_place(last.candidates[i].kinds) = last.category
            /\ \E j \in 1..Len(last.result) :
                  /\ last.result[j].xid = last.candidates[i].xid
                  /\ last.result[j].category = last.category

\* position of the first candidate carrying `xid`
FirstOccurrence(candidates, xid) ==
    CHOOSE k \in 1..Len(candidates) :
        /\ candidates[k].xid = xid
        /\ \A m \in 1..(k - 1) : candidates[m].xid # xid

\* C5: the returned list holds each xid at most once, every element comes from
\* the first candidate carrying its xid, and the elements keep the candidates'
\* order.
C5_DedupKeepsFirst ==
    (last.done /\ last.raised = None) =>
        /\ \A i, j \in 1..Len(last.result) :
               i # j => last.result[i].xid # last.result[j].xid
        /\ \A i \in 1..Len(last.result) :
               /\ \E k \in 1..Len(last.candidates) :
                      last.candidates[k].xid = last.result[i].xid
               /\ last.result[i].kinds =
                      last.candidates[FirstOccurrence(last.candidates,
                                                      last.result[i].xid)].kinds
        /\ \A i, j \in 1..Len(last.result) :
               i < j => FirstOccurrence(last.candidates, last.result[i].xid)
                          < FirstOccurrence(last.candidates, last.result[j].xid)

C5_Witness ==
    /\ last.done
    /\ last.raised = None
    /\ Len(last.candidates) = 2
    /\ last.candidates[1].xid = last.candidates[2].xid
    /\ last.candidates[1].kinds # last.candidates[2].kinds
    /\ Len(last.result) = 1
    /\ last.result[1].kinds = last.candidates[1].kinds

ImagesOf(table) == UNION {{table[c][i] : i \in 1..Len(table[c])} : c \in DOMAIN table}

\* C6: a returned list has at most `limit` elements, and each element has a
\* category among nature, adventure, culture, food and a non-empty image URL,
\* whether the detail image, the image resolver or the final category fallback
\* supplied it.
C6_BoundedCategorizedWithImage ==
    (last.done /\ last.raised = None) =>
        /\ Len(last.result) <= last.limit
        /\ \A i \in 1..Len(last.result) :
               /\ last.result[i].category \in {"nature", "adventure", "culture", "food"}
               /\ TruthyUrl(last.result[i].image)

\* A list of `limit` elements whose images come from the image resolver's
\* provider search and from the final category fallback.
C6_Witness ==
    /\ last.done
    /\ last.raised = None
    /\ Len(last.result) = 2
    /\ last.limit = 2
    /\ last.result[1].image_source = "unsplash"
    /\ last.result[2].image_source = "fallback"
    /\ last.result[2].image \in ImagesOf(RECOMMENDER_FALLBACK_IMAGES)

----------------------------------------------------------------------------
(* get_places_with_details: specification *)

\* longest candidate list and largest max_details handed to the call
MaxCandidates == 3

MaxDetailsArg == 2

InitEnrich ==
    /\ enrich \in {[Idle.NotEnriched EXCEPT !.places = l, !.max_details = m] :
                     l \in SeqsUpTo(Inputs.Candidates, MaxCandidates), m \in 0..MaxDetailsArg}
    /\ otm_api_key \in BOOLEAN
    /\ detail_cache \in Inputs.InitialDetailCaches
    /\ trip = Idle.IdleTrip
    /\ otm_body = [shape |-> "scalar", items |-> <<>>]
    /\ osm_body = <<>>
    /\ last = Idle.NoCall
    /\ unsplash_disabled = FALSE
    /\ image_cache = {}
    /\ access_key = FALSE
    /\ tripped = FALSE
    /\ calls = <<>>
    /\ ScoreIdle
    /\ AuxIdle

\* One whole call opentripmap_service.get_places_with_details(places, max_details)
EnrichPlaces ==
    /\ ~enrich.done
    /\ \E r \in get_places_with_details(enrich.places, enrich.max_details,
                                        otm_api_key, detail_cache) :
        /\ detail_cache' = r.dcache
        /\ enrich' = [enrich EXCEPT !.done = TRUE, !.exc = r.exc,
                                    !.result = r.enriched, !.requests = r.requests]
    /\ UNCHANGED <<trip, otm_api_key, otm_body, osm_body, last, imageVars, scoreVars, auxVars>>

NextEnrich == EnrichPlaces

SpecEnrich == InitEnrich /\ [][NextEnrich]_vars

----------------------------------------------------------------------------
(* get_places_with_details: properties *)

\* the candidate at position i is one the loop fetches details for
Eligible(i) ==
    /\ i - 1 < enrich.max_details
    /\ Truthy(enrich.places[i].xid)
    /\ ~StartsWith(enrich.places[i].xid, OSM_PREFIX)

\* C20: the list get_places_with_details returns has the length and the order
\* of its input; a detail fetch is made only for candidates at positions below
\* max_details whose xid is non-empty and does not start with 'osm_', so at
\* most max_details fetches are made; every other candidate passes through
\* with image None and an empty description.
C20_EnrichKeepsOrderAndBound ==
    enrich.done =>
      /\ enrich.requests <= enrich.max_details
      /\ enrich.requests <= Cardinality({i \in 1..Len(enrich.places) : Eligible(i)})
      /\ enrich.exc = None =>
           /\ Len(enrich.result) = Len(enrich.places)
           /\ \A i \in 1..Len(enrich.places) :
                /\ enrich.result[i].xid = enrich.places[i].xid
                /\ enrich.result[i].name = enrich.places[i].name
                /\ enrich.result[i].kinds = enrich.places[i].kinds
                /\ enrich.result[i].has_details <=> Eligible(i)
                /\ ~Eligible(i) => /\ enrich.result[i].image = None
                                   /\ enrich.result[i].description = <<>>
           /\ Cardinality({i \in 1..Len(enrich.places) : enrich.result[i].has_details})
                 <= enrich.max_details

\* three candidates with max_details = 2: the first is fetched and comes back
\* with image and description, the second is an Overpass place, the third lies
\* beyond max_details although its xid would qualify
C20_Witness ==
    /\ enrich.done
    /\ enrich.exc = None
    /\ enrich.max_details = 2
    /\ Len(enrich.places) = 3
    /\ enrich.places[1].xid = Sample.x1
    /\ StartsWith(enrich.places[2].xid, OSM_PREFIX)
    /\ enrich.places[3].xid = Sample.x2
    /\ enrich.requests = 1
    /\ Len(enrich.result) = 3
    /\ enrich.result[1].has_details
    /\ enrich.result[1].image # None
    /\ enrich.result[1].description = S_Extract
    /\ ~enrich.result[2].has_details
    /\ ~enrich.result[3].has_details

----------------------------------------------------------------------------
(* get_place_details: specification *)

\* number of get_place_details calls and cache expiries in a behaviour
MaxDetailEvents == 3

InitDetails ==
    /\ group = Idle.NoGroup
    /\ store = Idle.NoStore
    /\ workers = Idle.NoWorkers
    /\ detail_log = <<>>
    /\ categorized = Idle.NotCategorized
    /\ kinds_call = Idle.NoKindsCall
    /\ query_call = Idle.NoQueryCall
    /\ detail_cache = {}
    /\ otm_api_key \in BOOLEAN
    /\ enrich = Idle.NotEnriched
    /\ trip = Idle.IdleTrip
    /\ otm_body = [shape |-> "scalar", items |-> <<>>]
    /\ osm_body = <<>>
    /\ last = Idle.NoCall
    /\ unsplash_disabled = FALSE
    /\ image_cache = {}
    /\ access_key = FALSE
    /\ tripped = FALSE
    /\ calls = <<>>
    /\ ScoreIdle

\* One whole call opentripmap_service.get_place_details(xid)
GetPlaceDetails ==
    /\ Len(detail_log) < MaxDetailEvents
    /\ \E xid \in Inputs.DetailXids :
       \E r \in {get_place_details(xid, otm_api_key, detail_cache, response)
                    : response \in DetailResponses(xid)} :
          /\ detail_cache' = r.dcache
          /\ detail_log' = Append(detail_log,
                 [kind |-> "call", xid |-> xid, details |-> r.details,
                  requests |-> r.requests, exc |-> r.exc])
    /\ UNCHANGED <<trip, otm_api_key, otm_body, osm_body, last, enrich, imageVars,
                   scoreVars, categorized, kinds_call, query_call, group, store, workers>>

\* the timeout given to cache.set elapses: the entry is gone
DetailCacheExpire ==
    /\ Len(detail_log) < MaxDetailEvents
    /\ \E e \in detail_cache :
          /\ detail_cache' = detail_cache \ {e}
          /\ detail_log' = Append(detail_log,
                 [kind |-> "expire", xid |-> e.xid, details |-> EmptyDetails,
                  requests |-> 0, exc |-> None])
    /\ UNCHANGED <<trip, otm_api_key, otm_body, osm_body, last, enrich, imageVars,
                   scoreVars, categorized, kinds_call, query_call, group, store, workers>>

NextDetails == GetPlaceDetails \/ DetailCacheExpire

SpecDetails == InitDetails /\ [][NextDetails]_vars

----------------------------------------------------------------------------
(* get_place_details: properties *)

\* C21: a successful detail result is cached for the positive TTL, and every
\* failed or empty detail result is cached as an empty entry with a TTL
\* strictly shorter than the positive TTL.
C21_NegativeTtlShorter ==
    \A e \in detail_cache :
        /\ e.payload # EmptyDetails => e.ttl = DETAILS_CACHE_TIMEOUT
        /\ e.payload = EmptyDetails => e.ttl < DETAILS_CACHE_TIMEOUT

\* the cache entry of `xid` has not expired between events i and j
NoExpiryBetween(xid, i, j) ==
    \A k \in (i + 1)..(j - 1) :
        ~(detail_log[k].kind = "expire" /\ detail_log[k].xid = xid)

\* C22: after get_place_details(xid) issued a provider request and returned,
\* every later call for the same xid that starts before the cached entry
\* expired returns the cached payload (the empty payload after a failure)
\* without a provider request.
C22_DetailCacheHit ==
    \A i, j \in 1..Len(detail_log) :
        ( /\ i < j
          /\ detail_log[i].kind = "call"
          /\ detail_log[j].kind = "call"
          /\ detail_log[i].xid = detail_log[j].xid
          /\ detail_log[i].requests = 1
          /\ detail_log[i].exc = None
          /\ NoExpiryBetween(detail_log[i].xid, i, j) )
        => /\ detail_log[j].requests = 0
           /\ detail_log[j].exc = None
           /\ detail_log[j].details = detail_log[i].details

\* a failed request for x1, a call for another xid, then a second call for x1
\* answered from the cache with the empty payload
C22_Witness ==
    /\ Len(detail_log) = 3
    /\ detail_log[1].kind = "call"
    /\ detail_log[1].xid = Sample.x1
    /\ detail_log[1].requests = 1
    /\ detail_log[1].details = EmptyDetails
    /\ detail_log[2].kind = "call"
    /\ detail_log[2].xid = Sample.x2
    /\ detail_log[3].kind = "call"
    /\ detail_log[3].xid = Sample.x1
    /\ detail_log[3].requests = 0
    /\ detail_log[3].details = EmptyDetails
    /\ \E e \in detail_cache : e.xid = Sample.x1 /\ e.ttl = DETAILS_FAILURE_TIMEOUT

----------------------------------------------------------------------------
(* _categorize_place: specification *)

\* number of comma-separated tags in a kinds string
MaxTags == 2

KindsStrings == {JoinComma(l) : l \in SeqsUpTo(Inputs.KindTags, MaxTags)}

InitCategorize ==
    /\ group = Idle.NoGroup
    /\ store = Idle.NoStore
    /\ workers = Idle.NoWorkers
    /\ categorized \in {[Idle.NotCategorized EXCEPT !.kinds_str = k] : k \in KindsStrings}
    /\ detail_log = <<>>
    /\ kinds_call = Idle.NoKindsCall
    /\ query_call = Idle.NoQueryCall
    /\ unsplash_disabled = FALSE
    /\ image_cache = {}
    /\ access_key = FALSE
    /\ tripped = FALSE
    /\ calls = <<>>
    /\ RecIdle
    /\ ScoreIdle

\* One call self._categorize_place(kinds_str)
Categorize ==
    /\ ~categorized.done
    /\ categorized' = [categorized EXCEPT
                         !.done = TRUE,
                         !.category = _categorize_place(categorized.kinds_str)]
    /\ UNCHANGED <<imageVars, recVars, scoreVars, detail_log, kinds_call, query_call,
                   group, store, workers>>

NextCategorize == Categorize

SpecCategorize == InitCategorize /\ [][NextCategorize]_vars

----------------------------------------------------------------------------
(* _categorize_place: properties *)

\* the keyword lists of lines 170-177, in the order of the `if` statements
CategoryRules ==
    << [category |-> "nature",
        keywords |-> {K.natural, K.beach, K.mountain, K.park}],
       [category |-> "adventure",
        keywords |-> {K.sport, K.climbing, K.diving}],
       [category |-> "culture",
        keywords |-> {K.cultural, K.historic, K.museum, K.architecture}],
       [category |-> "food",
        keywords |-> {K.food, K.restaurant, K.cafe}] >>

\* a keyword of rule r occurs in the lower-cased kinds string
RuleMatches(r, kinds_str) ==
    \E k \in CategoryRules[r].keywords : Contains(k, Lower(kinds_str))

\* C26: the category is that of the first rule, in the order nature,
\* adventure, culture, food, one of whose keywords occurs in the lower-cased
\* kinds string, and 'culture' when no keyword occurs (the empty string
\* included).
C26_CategorizeByPriority ==
    categorized.done =>
        LET matching == {r \in 1..Len(CategoryRules) :
                            RuleMatches(r, categorized.kinds_str)}
        IN  /\ matching = {} => categorized.category = "culture"
            /\ matching # {} =>
                 \E r \in matching :
                    /\ \A q \in matching : r <= q
                    /\ categorized.category = CategoryRules[r].category

\* 'Natural,sport' holds a nature and an adventure keyword and is categorized
\* as nature
C26_Witness ==
    /\ categorized.done
    /\ categorized.kinds_str = K.Natural \o COMMA \o K.sport
    /\ categorized.category = "nature"

----------------------------------------------------------------------------
(* _get_dominant_interests, _map_interests_to_kinds: specification *)

\* interest names of Preference rows: keys of INTEREST_TO_KINDS, one of them
\* capitalized, and one the table does not know
I ==
    [ photography |-> <<"p", "h", "o", "t", "o", "g", "r", "a", "p", "h", "y">>,
      water_sports |-> <<"w", "a", "t", "e", "r", " ", "s", "p", "o", "r", "t", "s">>,
      museums |-> <<"m", "u", "s", "e", "u", "m", "s">>,
      history |-> <<"h", "i", "s", "t", "o", "r", "y">>,
      food |-> <<"f", "o", "o", "d">>,
      nightlife |-> <<"n", "i", "g", "h", "t", "l", "i", "f", "e">>,
      Hiking |-> <<"H", "i", "k", "i", "n", "g">>,
      yoga |-> <<"y", "o", "g", "a">> ]

\* accepted members of a trip
MaxMembers == 3

\* the 'interests' list of a member: members_data[i]['interests'], empty for a
\* member without Preference row
MemberInterests ==
    { <<>>,
      <<I.photography, I.water_sports, I.museums>>,
      <<I.history, I.food, I.nightlife>>,
      <<I.nightlife, I.photography>>,
      <<I.Hiking, I.yoga>>,
      <<I.yoga>> }

InitKinds ==
    /\ group = Idle.NoGroup
    /\ store = Idle.NoStore
    /\ workers = Idle.NoWorkers
    /\ kinds_call \in {[Idle.NoKindsCall EXCEPT !.members_data = m]
                        : m \in SeqsUpTo(MemberInterests, MaxMembers)}
    /\ detail_log = <<>>
    /\ categorized = Idle.NotCategorized
    /\ query_call = Idle.NoQueryCall
    /\ unsplash_disabled = FALSE
    /\ image_cache = {}
    /\ access_key = FALSE
    /\ tripped = FALSE
    /\ calls = <<>>
    /\ RecIdle
    /\ ScoreIdle

\* lines 279-280 of recommend, taken when no category is given:
\* interests = self._get_dominant_interests();
\* kinds = self._map_interests_to_kinds(interests)
MapInterestsToKinds ==
    /\ ~kinds_call.done
    /\ LET interests == _get_dominant_interests(kinds_call.members_data)
       IN  \E r \in _map_interests_to_kinds(interests) :
             kinds_call' = [kinds_call EXCEPT !.done = TRUE, !.interests = interests,
                                              !.is_none = r.is_none, !.kinds = r.kinds]
    /\ UNCHANGED <<imageVars, recVars, scoreVars, detail_log, categorized, query_call,
                   group, store, workers>>

NextKinds == MapInterestsToKinds

SpecKinds == InitKinds /\ [][NextKinds]_vars

----------------------------------------------------------------------------
(* _get_dominant_interests, _map_interests_to_kinds: properties *)

\* position at which interest x is first seen across the members
FirstSeen(all_interests, x) ==
    CHOOSE i \in 1..Len(all_interests) :
        /\ all_interests[i] = x
        /\ \A k \in 1..(i - 1) : all_interests[k] # x

\* interest y ranks before interest x: it is more frequent, or as frequent and
\* seen first
RanksBefore(all_interests, y, x) ==
    \/ Count(all_interests, y) > Count(all_interests, x)
    \/ /\ Count(all_interests, y) = Count(all_interests, x)
       /\ FirstSeen(all_interests, y) < FirstSeen(all_interests, x)

\* the interests with fewer than TOP_INTERESTS interests ranked before them
TopRanked(all_interests) ==
    LET distinct == {all_interests[i] : i \in 1..Len(all_interests)}
    IN  {x \in distinct :
           Cardinality({y \in distinct : RanksBefore(all_interests, y, x)})
              < TOP_INTERESTS}

\* the kind tags of the table rows a set of interests matches
KindsOf(interests) ==
    UNION { {Split(row.kinds)[k] : k \in 1..Len(Split(row.kinds))}
            : row \in {r \in INTEREST_TO_KINDS :
                         \E x \in interests : Lower(x) = r.interest} }

\* whatever five rows of the table are matched, they hold no more than
\* MAX_KINDS distinct tags
CapKeepsEveryTag ==
    LET tag_sets == {KindsOf({row.interest}) : row \in INTEREST_TO_KINDS}
    IN  \A chosen \in SUBSET tag_sets :
            Cardinality(chosen) <= TOP_INTERESTS =>
                Cardinality(UNION chosen) <= MAX_KINDS

\* C25: without an explicit category the kind filter is the union of the
\* INTEREST_TO_KINDS entries, matched case-insensitively, of the five
\* interests ranked highest by frequency across the members, ties broken by
\* first-seen order; it holds at most 8 distinct tags, the cap drops no tag of
\* those five interests, and it is None when none of the five maps to a kind.
C25_KindsFromTopInterests ==
    /\ CapKeepsEveryTag
    /\ kinds_call.done =>
         LET expected == KindsOf(TopRanked(AllInterests(kinds_call.members_data)))
         IN  /\ kinds_call.is_none <=> expected = {}
             /\ kinds_call.kinds = expected
             /\ Cardinality(kinds_call.kinds) <= MAX_KINDS

\* six interests over three members: nightlife and photography, named twice,
\* rank first; food, seen fifth among the interests named once, falls out of
\* the five; the filter holds exactly eight tags
C25_Witness ==
    /\ kinds_call.done
    /\ kinds_call.members_data =
          << <<I.photography, I.water_sports, I.museums>>,
             <<I.history, I.food, I.nightlife>>,
             <<I.nightlife, I.photography>> >>
    /\ kinds_call.interests =
          <<I.photography, I.nightlife, I.water_sports, I.museums, I.history, I.food>>
    /\ ~kinds_call.is_none
    /\ Cardinality(kinds_call.kinds) = MAX_KINDS
    /\ K.foods \notin kinds_call.kinds

----------------------------------------------------------------------------
(* get_place_image_with_fallback, one call: specification *)

InitQueries ==
    /\ group = Idle.NoGroup
    /\ store = Idle.NoStore
    /\ workers = Idle.NoWorkers
    /\ unsplash_disabled \in BOOLEAN
    /\ tripped = unsplash_disabled
    /\ image_cache \in Inputs.QueryCaches
    /\ access_key \in BOOLEAN
    /\ calls = <<>>
    /\ query_call = Idle.NoQueryCall
    /\ detail_log = <<>>
    /\ categorized = Idle.NotCategorized
    /\ kinds_call = Idle.NoKindsCall
    /\ RecIdle
    /\ ScoreIdle

\* One whole call of unsplash_service.get_place_image_with_fallback
ResolveOnce ==
    /\ ~query_call.done
    /\ \E place_name \in Inputs.QueryNames, city \in Inputs.QueryCities, country \in Inputs.QueryCountries,
          category \in Inputs.Categories :
         \E r \in get_place_image_with_fallback(place_name, city, country, category,
                                                image_cache, unsplash_disabled,
                                                access_key) :
            /\ image_cache' = r.cache
            /\ unsplash_disabled' = r.disabled
            /\ tripped' = (tripped \/ r.saw403)
            /\ query_call' = [done |-> TRUE, place_name |-> place_name, city |-> city,
                              country |-> country, category |-> category,
                              cache_at_start |-> image_cache,
                              disabled_at_start |-> unsplash_disabled,
                              tried |-> r.tried, ended |-> r.ended,
                              requests |-> r.requests]
    /\ UNCHANGED <<access_key, calls, recVars, scoreVars, detail_log, categorized,
                   kinds_call, group, store, workers>>

NextQueries == ResolveOnce

SpecQueries == InitQueries /\ [][NextQueries]_vars

----------------------------------------------------------------------------
(* get_place_image_with_fallback, one call: properties *)

\* the candidate queries as the specification lists them: (a), (b), (c)
ClaimedQueries(place_name, city, country, category) ==
    LET name == Strip(place_name)
        cty == Strip(city)
        ctr == Strip(country)
        a == IF name = <<>> THEN <<>>
             ELSE IF cty = <<>> THEN <<name>>
             ELSE IF ctr = <<>> THEN <<name \o SP \o cty>>
             ELSE <<name \o SP \o cty \o SP \o ctr>>
        b == IF cty # <<>> /\ category \in DOMAIN CATEGORY_KEYWORDS
             THEN <<cty \o SP \o CATEGORY_KEYWORDS[category]>> ELSE <<>>
        c == IF cty = <<>> THEN <<>>
             ELSE IF ctr = <<>> THEN <<cty \o SP \o KW.landmark>>
             ELSE <<cty \o SP \o ctr>>
    IN  a \o b \o c

----------------------------------------------------------------------------
(* TripRecommender instance, get_group_analysis: specification *)

\* accepted members of the trip, and calls made on one instance
MaxAccepted == 2

MaxInstanceCalls == 2

\* an accepted member: without Preference row, or with one
MemberRows ==
    { [has_preference |-> FALSE, budget_range |-> None, travel_style |-> None,
       interests |-> <<>>],
      [has_preference |-> TRUE, budget_range |-> "low", travel_style |-> "solo",
       interests |-> <<I.food>>],
      [has_preference |-> TRUE, budget_range |-> "high", travel_style |-> "solo",
       interests |-> <<I.yoga, I.food>>] }

\* the accepted TripMember rows: member i is user i
AcceptedMembers ==
    { [i \in 1..Len(l) |->
          [user_id |-> i, has_preference |-> l[i].has_preference,
           budget_range |-> l[i].budget_range, travel_style |-> l[i].travel_style,
           interests |-> l[i].interests]]
      : l \in SeqsUpTo(MemberRows, MaxAccepted) }

\* recommender = TripRecommender(trip): members_data is empty
InitGroup ==
    /\ group \in {[Idle.NoGroup EXCEPT !.accepted = a] : a \in AcceptedMembers}
    /\ store = Idle.NoStore
    /\ workers = Idle.NoWorkers
    /\ trip \in Trips
    /\ otm_api_key = FALSE
    /\ otm_body = [shape |-> "scalar", items |-> <<>>]
    /\ osm_body = <<>>
    /\ detail_cache = {}
    /\ last = Idle.NoCall
    /\ enrich = Idle.NotEnriched
    /\ detail_log = <<>>
    /\ categorized = Idle.NotCategorized
    /\ kinds_call = Idle.NoKindsCall
    /\ query_call = Idle.NoQueryCall
    /\ unsplash_disabled = FALSE
    /\ image_cache = {}
    /\ access_key = FALSE
    /\ tripped = FALSE
    /\ calls = <<>>
    /\ ScoreIdle

\* recommender.get_group_analysis()
GetGroupAnalysis ==
    /\ group.calls < MaxInstanceCalls
    /\ LET members_data == _load_members_data(group.members_data, group.accepted)
       IN  group' = [group EXCEPT
                       !.members_data = members_data,
                       !.analyses = Append(@, get_group_analysis(members_data)),
                       !.calls = @ + 1]
    /\ UNCHANGED <<imageVars, recVars, scoreVars, detail_log, categorized, kinds_call,
                   query_call, store, workers>>

\* recommender.recommend() on the same instance: _load_members_data runs when
\* _ensure_coordinates returned True (lines 272-275)
RecommendOnInstance ==
    /\ group.calls < MaxInstanceCalls
    /\ \E r \in recommend(trip, None, 1,
                         [otm_api_key |-> otm_api_key, otm_body |-> otm_body,
                          osm_body |-> osm_body, dcache |-> detail_cache,
                          cache |-> image_cache, disabled |-> unsplash_disabled,
                          key |-> access_key]) :
        /\ trip' = [trip EXCEPT !.latitude = r.latitude, !.longitude = r.longitude]
        /\ detail_cache' = r.dcache
        /\ image_cache' = r.cache
        /\ unsplash_disabled' = r.disabled
        /\ tripped' = (tripped \/ (r.disabled /\ ~unsplash_disabled))
        /\ group' = [group EXCEPT
                       !.members_data = IF r.coords_ok
                                        THEN _load_members_data(@, group.accepted)
                                        ELSE @,
                       !.calls = @ + 1]
    /\ UNCHANGED <<access_key, calls, otm_api_key, otm_body, osm_body, last, enrich,
                   scoreVars, detail_log, categorized, kinds_call, query_call, store,
                   workers>>

NextGroup == GetGroupAnalysis \/ RecommendOnInstance

SpecGroup == InitGroup /\ [][NextGroup]_vars

----------------------------------------------------------------------------
(* TripRecommender instance, get_group_analysis: properties *)

\* the analysis counts every accepted member once
CountsMembersOnce(analysis) ==
    LET accepted == group.accepted
        with_budget(b) == {i \in 1..Len(accepted) :
                             accepted[i].has_preference /\ accepted[i].budget_range = b}
        with_style(t) == {i \in 1..Len(accepted) :
                            accepted[i].has_preference /\ accepted[i].travel_style = t}
    IN  /\ analysis.member_count = Len(accepted)
        /\ \A p \in analysis.budget_distribution : p[2] = Cardinality(with_budget(p[1]))
        /\ \A p \in analysis.style_distribution : p[2] = Cardinality(with_style(p[1]))

\* C28: get_group_analysis reports member_count equal to the number of
\* accepted members and distributions that count each accepted member once,
\* and returns the same result whether or not recommend or get_group_analysis
\* was called earlier on the same TripRecommender instance.
C28_AnalysisIndependentOfEarlierCalls ==
    /\ \A k \in 1..Len(group.analyses) : CountsMembersOnce(group.analyses[k])
    /\ \A k, m \in 1..Len(group.analyses) : group.analyses[k] = group.analyses[m]

----------------------------------------------------------------------------
(* SaveDestinationView: specification *)

MaxSaveRequests == 3

SavePayloads ==
    {[mode |-> "xid", valid |-> v, xid |-> x, name |-> n, category |-> c,
      notes |-> "", destination_id |-> 0]
       : v \in BOOLEAN, x \in {"X1", "X2"}, n \in {"Fort", "Beach"},
         c \in {"culture", "nature"}}
    \cup {[mode |-> "legacy", valid |-> TRUE, xid |-> None, name |-> "",
           category |-> "", notes |-> "", destination_id |-> i] : i \in 1..2}

InitSave ==
    /\ store = Idle.NoStore
    /\ workers = Idle.NoWorkers
    /\ group = Idle.NoGroup
    /\ detail_log = <<>>
    /\ categorized = Idle.NotCategorized
    /\ kinds_call = Idle.NoKindsCall
    /\ query_call = Idle.NoQueryCall
    /\ unsplash_disabled = FALSE
    /\ image_cache = {}
    /\ access_key = FALSE
    /\ tripped = FALSE
    /\ calls = <<>>
    /\ RecIdle
    /\ ScoreIdle

\* POST /api/trips/{trip_id}/save-destination/
SaveDestination ==
    /\ store.now < MaxSaveRequests
    /\ \E trip_row \in Inputs.SaveTrips, payload \in SavePayloads, notified \in BOOLEAN :
          store' = SaveDestinationPost(store, trip_row, 1, payload, notified)
    /\ UNCHANGED <<imageVars, recVars, scoreVars, detail_log, categorized, kinds_call,
                   query_call, group, workers>>

NextSave == SaveDestination

SpecSave == InitSave /\ [][NextSave]_vars

----------------------------------------------------------------------------
(* SaveDestinationView: properties *)

\* the last request carried an xid already saved to its trip and was rejected
\* as a duplicate
RejectedAsDuplicate ==
    /\ store.response.status = 400
    /\ store.response.detail = "Destination already saved for this trip."
    /\ \E d \in store.response.destinations_before,
          t \in store.response.saved_before :
          /\ d.xid = store.response.xid
          /\ t.destination = d.id
          /\ t.trip = store.response.trip

\* C29: a save-destination request rejected as a duplicate leaves every
\* Destination record and every TripSavedDestination record unchanged, for
\* any payload carrying an xid already saved to that trip.
C29_DuplicateRejectionChangesNothing ==
    RejectedAsDuplicate =>
        /\ store.destinations = store.response.destinations_before
        /\ store.saved = store.response.saved_before

----------------------------------------------------------------------------
(* _search_unsplash under concurrent requests: specification *)

\* requests running _search_unsplash at the same time, and calls each makes
NumWorkers == 2

MaxSearches == 2

Workers == 1..NumWorkers

InitConcurrent ==
    /\ workers = [w \in Workers |-> Idle.IdleWorker]
    /\ unsplash_disabled = FALSE
    /\ access_key \in BOOLEAN
    /\ image_cache = {}
    /\ tripped = FALSE
    /\ calls = <<>>
    /\ store = Idle.NoStore
    /\ group = Idle.NoGroup
    /\ detail_log = <<>>
    /\ categorized = Idle.NotCategorized
    /\ kinds_call = Idle.NoKindsCall
    /\ query_call = Idle.NoQueryCall
    /\ RecIdle
    /\ ScoreIdle

\* lines 99-105: cache.get(UNSPLASH_DISABLED_KEY), then the access-key test
CheckBreaker(w) ==
    /\ workers[w].pc = "start"
    /\ workers[w].searches < MaxSearches
    /\ workers' = [workers EXCEPT
                     ![w].pc = IF unsplash_disabled \/ ~access_key
                               THEN "start" ELSE "checked",
                     ![w].searches = @ + 1,
                     ![w].checked_disabled = unsplash_disabled,
                     ![w].image_url = None]
    /\ UNCHANGED <<imageVars, recVars, scoreVars, detail_log, categorized, kinds_call,
                   query_call, group, store>>

\* line 120: requests.get(...) is started
SendRequest(w) ==
    /\ workers[w].pc = "checked"
    /\ workers' = [workers EXCEPT
                     ![w].pc = "waiting",
                     ![w].sent = @ + 1,
                     ![w].sent_while_disabled = @ \/ unsplash_disabled]
    /\ UNCHANGED <<imageVars, recVars, scoreVars, detail_log, categorized, kinds_call,
                   query_call, group, store>>

\* lines 120-163: the response arrives; a 403 sets the flag (line 133)
ReceiveResponse(w) ==
    /\ workers[w].pc = "waiting"
    /\ \E response \in ProviderResponses :
          LET r == _search_unsplash(<<>>, FALSE, TRUE, response)
          IN  /\ unsplash_disabled' = (unsplash_disabled \/ r.disabled)
              /\ tripped' = (tripped \/ r.saw403)
              /\ workers' = [workers EXCEPT ![w].pc = "start",
                                            ![w].image_url = r.image_url]
    /\ UNCHANGED <<image_cache, access_key, calls, recVars, scoreVars, detail_log,
                   categorized, kinds_call, query_call, group, store>>

NextConcurrent ==
    \/ \E w \in Workers : CheckBreaker(w)
    \/ \E w \in Workers : SendRequest(w)
    \/ \E w \in Workers : ReceiveResponse(w)
    \/ BreakerExpire

SpecConcurrent == InitConcurrent /\ [][NextConcurrent]_vars

----------------------------------------------------------------------------
(* _search_unsplash under concurrent requests: properties *)

\* C30: under any interleaving of concurrent requests, no request starts a
\* primary image-provider HTTP request at a moment when the circuit-breaker
\* flag is already set, including requests that passed their own breaker
\* check before another request's 403 response set the flag.
C30_NoRequestWhileBreakerSet ==
    \A w \in Workers : ~workers[w].sent_while_disabled

----------------------------------------------------------------------------
(* BuddyMatchingService: specification *)

MaxInterest == 3

\* A user's Preference row, or none
Preferences ==
    {[exists |-> TRUE, budget_range |-> b, travel_style |-> t,
      preferred_trip_duration |-> d, interests |-> i]
        : b \in Inputs.BudgetRanges, t \in Inputs.TravelStyles, d \in Inputs.Durations,
          i \in SUBSET (1..MaxInterest)}
      \cup {NoPreference}

InitScore ==
    /\ prefs \in [a : Preferences, b : Preferences]
    /\ scored = [ab |-> Idle.NotScored, ba |-> Idle.NotScored, matches |-> Idle.NotMatched]
    /\ unsplash_disabled = FALSE
    /\ image_cache = {}
    /\ access_key = FALSE
    /\ tripped = FALSE
    /\ calls = <<>>
    /\ RecIdle
    /\ AuxIdle

Scored(r) ==
    [done |-> TRUE, score |-> r.score, shared_interests |-> r.shared_interests,
     computed |-> r.computed, interest_score |-> r.interest_score,
     budget_score |-> r.budget_score]

\* BuddyMatchingService(a)._calculate_match_score(b's preferences)
ScoreFromA ==
    /\ ~scored.ab.done
    /\ scored' = [scored EXCEPT !.ab = Scored(_calculate_match_score(prefs.a, prefs.b))]
    /\ UNCHANGED <<prefs, imageVars, recVars, auxVars>>

\* BuddyMatchingService(b)._calculate_match_score(a's preferences)
ScoreFromB ==
    /\ ~scored.ba.done
    /\ scored' = [scored EXCEPT !.ba = Scored(_calculate_match_score(prefs.b, prefs.a))]
    /\ UNCHANGED <<prefs, imageVars, recVars, auxVars>>

\* get_matches' defaults: limit=10, min_score=0.0
DEFAULT_LIMIT == 10

\* Preference.objects.exclude(user=a): the rows of the other users
OthersOfA ==
    IF prefs.b.exists THEN <<[user |-> "b", preferences |-> prefs.b]>> ELSE <<>>

\* get_buddy_matches(a, min_score=...): BuddyMatchingService(a).get_matches
GetMatchesFromA ==
    /\ ~scored.matches.done
    /\ \E min_score \in Inputs.MinScores :
         scored' = [scored EXCEPT !.matches =
                       [done |-> TRUE, min_score |-> min_score,
                        result |-> get_matches(prefs.a, OthersOfA, DEFAULT_LIMIT,
                                               min_score)]]
    /\ UNCHANGED <<prefs, imageVars, recVars, auxVars>>

NextScore == ScoreFromA \/ ScoreFromB \/ GetMatchesFromA

SpecScore == InitScore /\ [][NextScore]_vars

----------------------------------------------------------------------------
(* BuddyMatchingService: properties.  Scores are in tenths: 1000 is 100.0 *)

\* C8 as stated: whenever the two preference records are identical,
\* _calculate_match_score returns 100.0.
C8_IdenticalScoresHundred ==
    (scored.ab.done /\ prefs.a.exists /\ prefs.a = prefs.b)
        => scored.ab.score = 1000

\* C8 as the code has it: identical preference records score 100.0 when their
\* interest set is non-empty and 75.0 when it is empty (the interest component
\* is then the neutral 50).
C8_IdenticalScores ==
    (scored.ab.done /\ prefs.a.exists /\ prefs.a = prefs.b)
        => scored.ab.score = IF prefs.a.interests # {} THEN 1000 ELSE 750

C8_Witness ==
    /\ scored.ab.done
    /\ prefs.a.exists
    /\ prefs.a = prefs.b
    /\ prefs.a.interests = {}
    /\ scored.ab.score = 750

\* C9: for every pair of preference records the score lies in [0, 100].
C9_ScoreInRange ==
    /\ scored.ab.done => (0 <= scored.ab.score /\ scored.ab.score <= 1000)
    /\ scored.ba.done => (0 <= scored.ba.score /\ scored.ba.score <= 1000)

\* the upper end of the interval is reached
C9_Witness ==
    /\ scored.ab.done
    /\ prefs.a.exists
    /\ prefs.b.exists
    /\ prefs.a.interests # {}
    /\ scored.ab.score = 1000

\* C10: scoring b from a's service gives the same score and the same set of
\* shared interests as scoring a from b's service.
C10_Symmetric ==
    (scored.ab.done /\ scored.ba.done)
        => /\ scored.ab.score = scored.ba.score
           /\ scored.ab.shared_interests = scored.ba.shared_interests

C10_Witness ==
    /\ scored.ab.done
    /\ scored.ba.done
    /\ prefs.a.exists
    /\ prefs.b.exists
    /\ prefs.a.interests # prefs.b.interests
    /\ prefs.a.budget_range # prefs.b.budget_range
    /\ scored.ab.shared_interests # {}
    /\ scored.ab.score = scored.ba.score

\* C11: if either user has no Preference record, _calculate_match_score
\* returns (0.0, []) for any counterpart, and get_matches for a user without a
\* Preference record returns an empty list.
C11_NoPreferenceScoresZero ==
    /\ (scored.ab.done /\ (~prefs.a.exists \/ ~prefs.b.exists))
           => (scored.ab.score = 0 /\ scored.ab.shared_interests = {})
    /\ (scored.ba.done /\ (~prefs.a.exists \/ ~prefs.b.exists))
           => (scored.ba.score = 0 /\ scored.ba.shared_interests = {})
    /\ (scored.matches.done /\ ~prefs.a.exists) => scored.matches.result = <<>>

\* a has no Preference row, b has one: get_matches ran for a, and b's service
\* scored a
C11_Witness ==
    /\ ~prefs.a.exists
    /\ prefs.b.exists
    /\ scored.matches.done
    /\ scored.matches.min_score = 0
    /\ scored.matches.result = <<>>
    /\ scored.ba.done
    /\ scored.ba.score = 0

\* the order low < medium < high
BudgetRank == [low |-> 1, medium |-> 2, high |-> 3]

\* C12: the budget component is 100 for equal budget ranges, 50 for ranges one
\* step apart on low < medium < high and 0 for ranges two steps apart, so
\* budget(low, high) < budget(low, medium) = budget(medium, high).
C12_BudgetComponent ==
    /\ scored.ab.computed =>
          LET steps == Abs(BudgetRank[prefs.a.budget_range]
                             - BudgetRank[prefs.b.budget_range])
          IN  scored.ab.budget_score =
                  IF steps = 0 THEN 100 ELSE IF steps = 1 THEN 50 ELSE 0
    /\ scored.ab.done =>
          /\ _calculate_budget_score("low", "high")
                 < _calculate_budget_score("low", "medium")
          /\ _calculate_budget_score("low", "medium")
                 = _calculate_budget_score("medium", "high")

\* a scoring of a low-budget user against a high-budget one
C12_Witness ==
    /\ scored.ab.computed
    /\ prefs.a.budget_range = "low"
    /\ prefs.b.budget_range = "high"
    /\ scored.ab.budget_score = 0

\* C13: the interest component is the Jaccard index of the two interest-ID
\* sets times 100 when both are non-empty (0 for disjoint sets), exactly 50
\* when both are empty, and 0 when exactly one is empty.
C13_InterestComponent ==
    scored.ab.computed =>
        LET a == prefs.a.interests
            b == prefs.b.interests
            i == scored.ab.interest_score
        IN  /\ (a # {} /\ b # {}) =>
                   /\ i.den > 0
                   /\ i.num * Cardinality(a \cup b)
                          = 100 * Cardinality(a \cap b) * i.den
                   /\ (a \cap b = {}) => i.num = 0
            /\ (a = {} /\ b = {}) => (i.num = 50 /\ i.den = 1)
            /\ ((a = {}) # (b = {})) => i.num = 0

\* two overlapping, different, non-empty interest sets
C13_Witness ==
    /\ scored.ab.computed
    /\ prefs.a.interests \cap prefs.b.interests # {}
    /\ prefs.a.interests # prefs.b.interests
    /\ scored.ab.interest_score.num * 3 = 100 * scored.ab.interest_score.den

====
